---- MODULE Spec2Model ----
(***************************************************************************)
(* State-machine model of the backup engine's Lambda handlers:             *)
(*   - Incremental Aggregator  (incremental_backup/lambda_function.py)     *)
(*   - Batch-Copy Launcher     (launch_batch_job/lambda_function.py)       *)
(*   - Sweep Planner           (filter_inventory/lambda_function.py)       *)
(* The object store and the batch-operations service are the environment:  *)
(* every call to them either takes effect or faults.                       *)
(*                                                                         *)
(* Strings that the code inspects (object keys, prefixes) are sequences of *)
(* one-character strings.                                                  *)
(***************************************************************************)
EXTENDS Integers, Sequences, FiniteSets, TLC

VARIABLES
    \* ---- central container and batch service, as the Aggregator sees them
    clock,          \* latest wall-clock second read (run_id resolution)
    markers,        \* set of groups with a window marker object
    manifests,      \* function: manifest key -> content (the integrity tag)
    jobs,           \* set of batch-copy jobs the service has created
    \* ---- Aggregator invocations
    agg,            \* function: invocation -> its local state (`faulted`,
                    \* `raised` and `result` in it are observation only)
    \* ---- history of the Aggregator's store calls (observation only)
    calls,          \* create_job calls: [inv, group, n, token, etag, ok]
    puts,           \* successful manifest put_object calls: [inv, key]
    marked,         \* [inv, group]: write_window_checkpoint took effect
    doneBefore,     \* function: invocation -> invocations finished when it began
    \* ---- Launcher: central container, batch service, invocations
    ltime,          \* latest wall-clock time read, <<hour, minute>>
    lobjects,       \* function: object key -> content (the integrity tag)
    ljobs,          \* set of batch-copy jobs the service has created
    lau,            \* function: launcher slot -> local state of its invocation
    lruns,          \* sequence of finished invocations (observation only)
    \* ---- Sweep Planner: central container, source container, invocation
    stime,          \* latest wall-clock time read
    uploads,        \* function: upload id -> "pending" | "completed" | "aborted"
    sobjects,       \* function: temporary manifest key -> rows written
    checkpoints,    \* function: <<source, mode>> -> checkpoint time
    sconf,          \* the deployment's settings
    sw,             \* local state of the running invocation
    sruns,          \* sequence of finished invocations (observation only)
    \* ---- functions applied on their own
    win,            \* compute_window_start: its arguments and its result
    man,            \* grouping and upload_manifest's rows: a batch and its rows
    \* ---- Discovery Reconciler: source containers and the running invocation
    notif,          \* function: container -> its notification configuration
    inventory,      \* function: container -> enumeration frequency or "none"
    disc,           \* local state of the reconciler's invocation
    \* ---- Restore Resolver: central container, source container, invocation
    rcentral,       \* function: object key of the central container -> content
    rsource,        \* set of object keys of the source container
    res,            \* local state of the resolver's invocation
    \* ---- the Aggregator's object filter applied to one key
    flt             \* settings, key and, once applied, the filter's answer

aggVars == <<clock, markers, manifests, jobs, agg, calls, puts, marked, doneBefore>>

launchVars == <<ltime, lobjects, ljobs, lau, lruns>>

sweepVars == <<sconf, stime, uploads, sobjects, checkpoints, sw, sruns>>

discVars == <<notif, inventory, disc>>

restVars == <<rcentral, rsource, res>>

otherVars == <<win, man, flt, discVars, restVars>>

vars == <<aggVars, launchVars, sweepVars, otherVars>>

\* ------------------------------------------------------------------------
\* Bounds of the model
\* ------------------------------------------------------------------------
MaxClock == 1

Invocations == {"i1", "i2"}

\* ------------------------------------------------------------------------
\* String helpers (str.startswith, str.endswith, `in`, str.rstrip)
\* ------------------------------------------------------------------------
StartsWith(s, p) == Len(p) <= Len(s) /\ SubSeq(s, 1, Len(p)) = p

EndsWith(s, p) == Len(p) <= Len(s) /\ SubSeq(s, Len(s) - Len(p) + 1, Len(s)) = p

Contains(s, p) == \E i \in 1..(Len(s) - Len(p) + 1) : SubSeq(s, i, i + Len(p) - 1) = p

RECURSIVE RStripSlash(_)
RStripSlash(p) ==
    IF Len(p) > 0 /\ p[Len(p)] = "/" THEN RStripSlash(SubSeq(p, 1, Len(p) - 1)) ELSE p

\* urllib.parse.unquote_plus on the model's alphabet (no '%' escapes occur):
\* every '+' becomes a space.
unquote_plus(s) == [i \in 1..Len(s) |-> IF s[i] = "+" THEN " " ELSE s[i]]

\* ------------------------------------------------------------------------
\* Deployment configuration (environment variables of the Aggregator)
\* ------------------------------------------------------------------------
DISABLE_WINDOW_CHECKPOINT == FALSE

ALLOWED_PREFIXES == [Critico |-> {}, MenosCritico |-> {}, NoCritico |-> {}]

EXCLUDE_KEY_PREFIXES == {<<"t">>}

EXCLUDE_KEY_SUFFIXES == {<<"~">>}

\* BACKUP_FREQUENCY_HOURS_<TIER>: [set] whether the variable is defined,
\* [int] whether int() accepts it, [val] its value.
FrequencyEnv ==
    [Critico      |-> [set |-> TRUE,  int |-> TRUE, val |-> 12],
     MenosCritico |-> [set |-> TRUE,  int |-> TRUE, val |-> 0],
     NoCritico    |-> [set |-> FALSE, int |-> TRUE, val |-> 0]]

\* Tag sets of the source containers: "b1" carries BackupCriticality=Critico,
\* "b2" has no tag set (NoSuchTagSet).
BucketTags == [b1 |-> [tagset |-> TRUE, value |-> "Critico"],
               b2 |-> [tagset |-> FALSE, value |-> ""]]

max_attempts == 3

\* ------------------------------------------------------------------------
\* Pure functions of the Aggregator
\* ------------------------------------------------------------------------
\* 0 stands for None: the handler only tests `not freq_hours`.
get_frequency_hours(criticality) ==
    LET e == FrequencyEnv[criticality]
    IN IF ~e.set \/ (e.int /\ e.val = 0) THEN 0
       ELSE IF ~e.int THEN 0
       ELSE IF e.val <= 0 THEN 0
       ELSE e.val

\* The value get_bucket_criticality returns when the tag read does not fault.
get_bucket_criticality(bucket_name) ==
    LET t == BucketTags[bucket_name]
    IN IF t.tagset /\ t.value # "" THEN t.value ELSE "MenosCritico"

\* within_allowed_prefixes, lines 126-187, as a function of the settings it
\* reads: the exclude-prefixes, the exclude-suffixes and the tier's allowed
\* prefixes.
object_filter(ex_prefixes, ex_suffixes, prefixes, object_key) ==
    IF EndsWith(object_key, <<"/">>) THEN FALSE
    ELSE IF \E p \in ex_prefixes :
                /\ Len(p) > 0
                /\ LET p_normalized == RStripSlash(p)
                   IN \/ StartsWith(object_key, p_normalized \o <<"/">>)
                      \/ StartsWith(object_key, p_normalized)
                      \/ Contains(object_key, <<"/">> \o p_normalized \o <<"/">>)
         THEN FALSE
    ELSE IF \E s \in ex_suffixes : EndsWith(object_key, s) THEN FALSE
    ELSE IF prefixes = {} THEN TRUE
    ELSE \E p \in prefixes : StartsWith(object_key, p)

within_allowed_prefixes(criticality, object_key) ==
    object_filter(EXCLUDE_KEY_PREFIXES, EXCLUDE_KEY_SUFFIXES, ALLOWED_PREFIXES[criticality],
                  object_key)

\* datetime.fromisoformat(eventTime.replace("Z", "+00:00")): a wall-clock
\* reading together with the UTC offset (in hours) the text carries.
datetime(day, hour, minute, second, microsecond, utcoffset) ==
    [day |-> day, hour |-> hour, minute |-> minute, second |-> second,
     microsecond |-> microsecond, utcoffset |-> utcoffset]

\* event_time.replace(hour=window_hour, minute=0, second=0, microsecond=0):
\* the date and the offset are those of event_time.
compute_window_start(event_time, freq_hours) ==
    LET window_hour == (event_time.hour \div freq_hours) * freq_hours
    IN [event_time EXCEPT !.hour = window_hour, !.minute = 0, !.second = 0,
                          !.microsecond = 0]

\* t.astimezone(timezone.utc): the same instant read on the UTC clock.
astimezone_utc(t) ==
    LET hours == t.day * 24 + t.hour - t.utcoffset
    IN [t EXCEPT !.day = hours \div 24, !.hour = hours % 24, !.utcoffset = 0]

\* strftime("%Y%m%dT%H%MZ"): the label keeps day, hour and minute.
window_label_of(window_start) ==
    <<window_start.day, window_start.hour, window_start.minute>>

_window_checkpoint_key(source_bucket, criticality, window_label) ==
    <<"checkpoints", "incremental", source_bucket, criticality, window_label>>

\* ------------------------------------------------------------------------
\* Queue messages of the model
\* ------------------------------------------------------------------------
Rec(b, k, h) == [kind |-> "ok", bucket |-> b, key |-> k,
                 eventTime |-> datetime(20, h, 15, 0, 0, 0)]

BadRec == [kind |-> "noEventTime", bucket |-> "b1", key |-> <<"a">>,
           eventTime |-> datetime(20, 0, 0, 0, 0, 0)]

Msg(id, body, recs) == [messageId |-> id, body |-> body, Records |-> recs]

\* m1: one record in window 12 of b1;  m2: windows 12 and 00 of b1;
\* m3: body is not JSON;  m4: a record for window 12, then a record without
\* eventTime;  m5: JSON but not an envelope, m6: filtered / untiered records.
M1 == Msg("m1", "dict", <<Rec("b1", <<"a">>, 13)>>)
M2 == Msg("m2", "dict", <<Rec("b1", <<"b">>, 14), Rec("b1", <<"a">>, 1)>>)
M3 == Msg("m3", "notjson", <<>>)
M4 == Msg("m4", "dict", <<Rec("b1", <<"c">>, 13), BadRec>>)
M5 == Msg("m5", "notdict", <<>>)
M6 == Msg("m6", "dict", <<Rec("b1", <<"t", "/", "a">>, 13), Rec("b2", <<"a">>, 13),
                          Rec("b1", <<"d", "/">>, 13)>>)

Batches == { <<M1>>, <<M3, M1>>, <<M4, M2>>, <<M5, M6>> }

\* ------------------------------------------------------------------------
\* lambda_handler, first loop: decode every queue message and group its
\* records by (criticality, bucket, window).  `acc` carries the handler's
\* dictionaries: order (insertion order of grouped_objects), objs
\* (grouped_objects), meta (window_metadata), mids (group_message_ids),
\* failed (failed_message_ids), cache (bucket_criticality_cache); raised
\* records the messages whose processing threw (observation only).
\* `fault` says whether a tag read made for this message faults.
\* ------------------------------------------------------------------------
EmptyAcc == [order |-> <<>>, objs |-> <<>>, meta |-> <<>>, mids |-> <<>>,
             failed |-> {}, cache |-> <<>>, raised |-> {}]

GroupAdd(acc, group_key, object_key, window_start, message_id) ==
    LET known == group_key \in DOMAIN acc.objs
        objs1 == IF known
                 THEN [acc.objs EXCEPT ![group_key] = @ \cup {object_key}]
                 ELSE acc.objs @@ (group_key :> {object_key})
        meta1 == IF known THEN [acc.meta EXCEPT ![group_key] = window_start]
                 ELSE acc.meta @@ (group_key :> window_start)
        hasM  == group_key \in DOMAIN acc.mids
        mids1 == IF message_id = "" THEN acc.mids
                 ELSE IF hasM THEN [acc.mids EXCEPT ![group_key] = @ \cup {message_id}]
                 ELSE acc.mids @@ (group_key :> {message_id})
    IN [acc EXCEPT !.order = IF known THEN @ ELSE Append(@, group_key),
                   !.objs = objs1, !.meta = meta1, !.mids = mids1]

\* One inner record; [acc, raised]: raised means the statement threw.
ProcessRecord(acc, message_id, s3_record, fault) ==
    IF s3_record.kind \in {"notdict", "nos3"} THEN [acc |-> acc, raised |-> FALSE]
    ELSE IF s3_record.kind = "noEventTime" THEN [acc |-> acc, raised |-> TRUE]
    ELSE
      LET bucket_name == s3_record.bucket
          object_key  == unquote_plus(s3_record.key)
          cached      == bucket_name \in DOMAIN acc.cache
      IN IF ~cached /\ fault THEN [acc |-> acc, raised |-> TRUE]
         ELSE
           LET criticality == IF cached THEN acc.cache[bucket_name]
                              ELSE get_bucket_criticality(bucket_name)
               acc1 == IF cached THEN acc
                       ELSE [acc EXCEPT !.cache = @ @@ (bucket_name :> criticality)]
               freq_hours == get_frequency_hours(criticality)
           IN IF freq_hours = 0 THEN [acc |-> acc1, raised |-> FALSE]
              ELSE IF ~within_allowed_prefixes(criticality, object_key)
                   THEN [acc |-> acc1, raised |-> FALSE]
              ELSE
                LET window_start == compute_window_start(s3_record.eventTime, freq_hours)
                    group_key == [criticality |-> criticality, bucket |-> bucket_name,
                                  window |-> window_label_of(window_start)]
                IN [acc |-> GroupAdd(acc1, group_key, object_key, window_start, message_id),
                    raised |-> FALSE]

RECURSIVE ProcessRecords(_, _, _, _, _)
ProcessRecords(acc, message_id, recs, k, fault) ==
    IF k > Len(recs) THEN [acc |-> acc, raised |-> FALSE]
    ELSE LET r == ProcessRecord(acc, message_id, recs[k], fault)
         IN IF r.raised THEN r
            ELSE ProcessRecords(r.acc, message_id, recs, k + 1, fault)

ProcessMessage(acc, record, fault) ==
    LET message_id == record.messageId
    IN IF record.body = "notjson"
       THEN [acc EXCEPT !.failed = IF message_id # "" THEN @ \cup {message_id} ELSE @]
       ELSE LET recs == IF record.body = "dict" THEN record.Records ELSE <<>>
                r == ProcessRecords(acc, message_id, recs, 1, fault)
            IN IF r.raised
               THEN [r.acc EXCEPT !.failed = IF message_id # "" THEN @ \cup {message_id}
                                             ELSE @,
                                  !.raised = @ \cup {message_id}]
               ELSE r.acc

RECURSIVE ProcessBatch(_, _, _, _)
ProcessBatch(acc, records, k, faults) ==
    IF k > Len(records) THEN acc
    ELSE ProcessBatch(ProcessMessage(acc, records[k], k \in faults), records, k + 1, faults)


\* ------------------------------------------------------------------------
\* Aggregator invocations: local state and steps.  A step is one call to
\* the store or to the batch service together with the local code up to
\* the next call.
\* ------------------------------------------------------------------------
IdleInvocation ==
    [pc |-> "idle", batch |-> <<>>, queue |-> <<>>, objs |-> <<>>, mids |-> <<>>,
     failed |-> {}, attempt |-> 0, run_id |-> 0, etag |-> {}, ncalls |-> 0,
     raised |-> {}, faulted |-> FALSE, jobs_created |-> <<>>, result |-> <<>>, response |-> {}]

InitAgg ==
    /\ clock = 0
    /\ markers = {}
    /\ manifests = <<>>
    /\ jobs = {}
    /\ agg = [i \in Invocations |-> IdleInvocation]
    /\ calls = {}
    /\ puts = {}
    /\ marked = {}
    /\ doneBefore = [i \in Invocations |-> {}]

CurGroup(i) == Head(agg[i].queue)

\* upload_manifest: the manifest key, up to the run_id that names the file.
ManifestKey(group_key, run_id) ==
    <<"manifests", group_key.criticality, "incremental", group_key.bucket,
      group_key.window, run_id>>

\* ord(): code points of the characters that occur in the model's keys.
ord ==
    [c \in {" ", "+", "/", "1", "a", "b", "c", "d", "t", "~"} |->
        CASE c = " " -> 32 [] c = "+" -> 43 [] c = "/" -> 47 [] c = "1" -> 49
          [] c = "a" -> 97 [] c = "b" -> 98 [] c = "c" -> 99 [] c = "d" -> 100
          [] c = "t" -> 116 [] c = "~" -> 126]

\* str.__lt__: the first differing character decides, a proper prefix is less.
LexLess(a, b) ==
    \E i \in 1..(Len(a) + 1) :
        /\ i <= Len(b)
        /\ SubSeq(a, 1, i - 1) = SubSeq(b, 1, i - 1)
        /\ (i > Len(a) \/ ord[a[i]] < ord[b[i]])

RECURSIVE sorted_Descending(_)
sorted_Descending(keys) ==
    IF keys = {} THEN <<>>
    ELSE LET k == CHOOSE x \in keys : \A y \in keys \ {x} : LexLess(y, x)
         IN <<k>> \o sorted_Descending(keys \ {k})

\* sorted(object_keys): the elements of the set in ascending order.
RECURSIVE sorted(_)
sorted(keys) ==
    IF keys = {} THEN <<>>
    ELSE LET k == CHOOSE x \in keys : \A y \in keys \ {x} : LexLess(x, y)
         IN <<k>> \o sorted(keys \ {k})

\* The CSV body: one row [bucket, key] per key of the set, in sorted order.
ManifestBody(source_bucket, object_keys) ==
    LET ordered == sorted(object_keys)
    IN [bucket |-> source_bucket,
        rows   |-> [n \in 1..Len(ordered) |-> <<source_bucket, ordered[n]>>]]

\* uuid.uuid4(): a value no other call returns.  An invocation makes at
\* most one n-th create_job call for a group, so (i, group, n) names the call.
Uuid4(i, group_key, n) == <<"uuid4", i, group_key, n>>

\* The token submit_batch_job passes as ClientRequestToken (lines 358, 407).
ClientRequestToken(i, group_key, n) == Uuid4(i, group_key, n)

\* datetime.now(): the wall clock never goes back; `clock` is the latest time
\* any invocation has read, and a read returns that time or a later one.
Now == clock..MaxClock

\* lambda_handler lines 430-514: the queue delivers a batch; the records are
\* decoded and grouped.  A tag read may fault for any of the messages.
\* Bound of the model: two invocations run at the same time only when at
\* most one of their batches spans several windows.
MultiGroup(b) == Len(ProcessBatch(EmptyAcc, b, 1, {}).order) > 1

MayOverlap(b1, b2) == ~(MultiGroup(b1) /\ MultiGroup(b2))

\* Invocations are interchangeable: "i2" names the one that begins second.
AggStart(i) ==
    /\ agg[i].pc = "idle"
    /\ i = "i2" => agg["i1"].pc # "idle"
    /\ \E b \in Batches, faults \in SUBSET {1, 2} :
         LET acc == ProcessBatch(EmptyAcc, b, 1, faults)
         IN /\ \A j \in Invocations \ {i} :
                 agg[j].pc \in {"idle", "done"} \/ MayOverlap(b, agg[j].batch)
            /\ agg' = [agg EXCEPT ![i] = [IdleInvocation EXCEPT
                        !.pc = "loop", !.batch = b, !.queue = acc.order,
                        !.objs = acc.objs, !.mids = acc.mids, !.failed = acc.failed,
                        !.raised = acc.raised,
                        !.faulted = (acc # ProcessBatch(EmptyAcc, b, 1, {}))]]
    /\ doneBefore' = [doneBefore EXCEPT ![i] = {j \in Invocations : agg[j].pc = "done"}]
    /\ UNCHANGED <<launchVars, sweepVars, otherVars, clock, markers, manifests, jobs, calls, puts, marked>>

\* A faulty variant of FailGroup: the group's messages are not reported.
FailGroup_Unreported(a, g) ==
    [a EXCEPT !.result = @ @@ (g :> "failed"),
              !.attempt = 0, !.run_id = 0, !.etag = {}, !.ncalls = 0,
              !.queue = Tail(@), !.pc = "loop"]

\* The except branch of the group loop (lines 569-576) and the next group.
\* `result` remembers how each group of the invocation ended.
FailGroup(a, g) ==
    [a EXCEPT !.failed = @ \cup (IF g \in DOMAIN a.mids THEN a.mids[g] ELSE {}),
              !.result = @ @@ (g :> "failed"),
              !.attempt = 0, !.run_id = 0, !.etag = {}, !.ncalls = 0,
              !.queue = Tail(@), !.pc = "loop"]

\* A faulty variant of has_window_been_processed: a fault of the read other
\* than a missing key is raised to the caller.
has_window_been_processed_Propagating(exists, fault) ==
    IF fault THEN "raise" ELSE IF exists THEN "True" ELSE "False"

\* has_window_been_processed (lines 78-87): "True" when the read finds the
\* marker; a missing key and every other fault of the read answer "False".
has_window_been_processed(exists, fault) ==
    IF fault THEN "False" ELSE IF exists THEN "True" ELSE "False"

\* Lines 516-529 and 213-220: the marker read of the next group.  The call
\* stands outside the try of the group loop: what it raised would leave the
\* handler (pc "raised").
AggCheckMarker(i) ==
    /\ agg[i].pc = "loop"
    /\ agg[i].queue # <<>>
    /\ LET g == CurGroup(i)
       IN \E fault \in BOOLEAN, now \in Now :
            LET answer == IF DISABLE_WINDOW_CHECKPOINT THEN "False"
                          ELSE has_window_been_processed(g \in markers, fault)
                processed == answer = "True"
            IN /\ agg' = [agg EXCEPT ![i] =
                        IF answer = "raise" THEN [@ EXCEPT !.pc = "raised"]
                        ELSE IF processed
                        THEN [@ EXCEPT !.queue = Tail(@), !.result = @ @@ (g :> "skipped")]
                        ELSE [@ EXCEPT !.pc = "put", !.attempt = 1, !.run_id = now,
                                       !.faulted = @ \/ fault]]
               /\ clock' = IF processed \/ answer = "raise" THEN clock ELSE now
    /\ UNCHANGED <<launchVars, sweepVars, otherVars, markers, manifests, jobs, calls, puts, marked, doneBefore>>

\* One attempt's failure in upload_manifest (lines 262-281).
UploadRetry(a, g) ==
    IF a.attempt < max_attempts
    THEN [a EXCEPT !.attempt = @ + 1, !.pc = "put"]
    ELSE FailGroup(a, g)

\* Lines 235-251: put_object of the manifest.
AggPutManifest(i) ==
    /\ agg[i].pc = "put"
    /\ LET g == CurGroup(i)
           k == ManifestKey(g, agg[i].run_id)
           body == ManifestBody(g.bucket, agg[i].objs[g])
       IN \/ /\ manifests' = IF k \in DOMAIN manifests
                             THEN [manifests EXCEPT ![k] = body]
                             ELSE manifests @@ (k :> body)
             /\ puts' = puts \cup {[inv |-> i, key |-> k]}
             /\ agg' = [agg EXCEPT ![i].etag = body, ![i].pc = "head"]
          \/ /\ agg' = [agg EXCEPT ![i] = UploadRetry([@ EXCEPT !.faulted = TRUE], g)]
             /\ UNCHANGED <<manifests, puts>>
    /\ UNCHANGED <<launchVars, sweepVars, otherVars, clock, markers, jobs, calls, marked, doneBefore>>

\* Lines 253-269: head_object of the manifest and the tag comparison.
AggHeadManifest(i) ==
    /\ agg[i].pc = "head"
    /\ LET g == CurGroup(i)
           k == ManifestKey(g, agg[i].run_id)
       IN \E fault \in BOOLEAN :
            LET verified == ~fault /\ agg[i].etag = manifests[k]
            IN agg' = [agg EXCEPT ![i] =
                            IF verified THEN [@ EXCEPT !.pc = "create", !.attempt = 0]
                            ELSE UploadRetry([@ EXCEPT !.faulted = @ \/ fault], g)]
    /\ UNCHANGED <<launchVars, sweepVars, otherVars, clock, markers, manifests, jobs, calls, puts, marked, doneBefore>>


\* ------------------------------------------------------------------------
\* The batch service's create_job, as the handlers see it.  A token the
\* service has seen returns the job created for it; a manifest tag that is
\* not the object's current tag is rejected with an ETag error; otherwise
\* the job is created.
\* ------------------------------------------------------------------------
JobOfToken(token) == CHOOSE j \in jobs : j.token = token

ServiceAnswer(token, manifest_key, manifest_etag) ==
    IF \E j \in jobs : j.token = token THEN "existing"
    ELSE IF manifest_key \notin DOMAIN manifests \/ manifests[manifest_key] # manifest_etag
         THEN "ETag"
    ELSE "created"

\* A faulty variant of RetriesError: every error is retried.
RetriesError_Always(error_msg) == TRUE

\* Line 370: which create_job errors submit_batch_job retries.
RetriesError(error_msg) == error_msg = "ETag"

\* A faulty variant of AfterFirstError: the error is passed over and the
\* group goes on to its marker.
AfterFirstError_PassedOver(a, g, error_msg) == [a EXCEPT !.pc = "mark"]

\* submit_batch_job after its first create_job raised (lines 365-418).
AfterFirstError(a, g, error_msg) ==
    IF RetriesError(error_msg) THEN [a EXCEPT !.pc = "retryHead"]
    ELSE FailGroup(a, g)

\* submit_batch_job after its second create_job raised (lines 414-416).
AfterRetryError(a, g, error_msg) == FailGroup(a, g)

\* Lines 361-363 and 554-560: the job id is returned and recorded.
JobAccepted(a, g, job_id) ==
    [a EXCEPT !.jobs_created = Append(@, [job_id |-> job_id, group |-> g]),
              !.result = @ @@ (g :> "submitted"),
              !.pc = "mark"]

\* One create_job call of submit_batch_job, the n-th for the group: the
\* first one or the retry.  The call faults ("other"), or the service answers.
AggCreate(i, first) ==
    LET g == CurGroup(i)
        k == ManifestKey(g, agg[i].run_id)
        n == agg[i].ncalls + 1
        token == ClientRequestToken(i, g, n)
    IN \E fault \in BOOLEAN :
         LET answer == IF fault THEN "other" ELSE ServiceAnswer(token, k, agg[i].etag)
             call == [inv |-> i, group |-> g, n |-> n, token |-> token,
                      etag |-> agg[i].etag, answer |-> answer]
             a == [agg[i] EXCEPT !.ncalls = n, !.faulted = @ \/ fault]
         IN /\ calls' = calls \cup {call}
            /\ jobs' = IF answer = "created"
                       THEN jobs \cup {[token |-> token, group |-> g, manifest |-> k,
                                        etag |-> agg[i].etag]}
                       ELSE jobs
            /\ agg' = [agg EXCEPT ![i] =
                         IF answer \in {"created", "existing"}
                         THEN JobAccepted(a, g, token)
                         ELSE IF first THEN AfterFirstError(a, g, answer)
                         ELSE AfterRetryError(a, g, answer)]

\* Lines 328-370: the first create_job.
AggCreateJob(i) ==
    /\ agg[i].pc = "create"
    /\ AggCreate(i, TRUE)
    /\ UNCHANGED <<launchVars, sweepVars, otherVars, clock, markers, manifests, puts, marked, doneBefore>>

\* Lines 373-376: the fresh metadata read before the retry.
AggRetryHead(i) ==
    /\ agg[i].pc = "retryHead"
    /\ LET g == CurGroup(i)
           k == ManifestKey(g, agg[i].run_id)
       IN \E fault \in BOOLEAN :
            agg' = [agg EXCEPT ![i] =
                      IF fault THEN FailGroup([@ EXCEPT !.faulted = TRUE], g)
                      ELSE [@ EXCEPT !.etag = manifests[k], !.pc = "retryCreate"]]
    /\ UNCHANGED <<launchVars, sweepVars, otherVars, clock, markers, manifests, jobs, calls, puts, marked, doneBefore>>

\* Lines 378-416: the retried create_job.
AggRetryCreate(i) ==
    /\ agg[i].pc = "retryCreate"
    /\ AggCreate(i, FALSE)
    /\ UNCHANGED <<launchVars, sweepVars, otherVars, clock, markers, manifests, puts, marked, doneBefore>>

\* Lines 562-567: the marker write; a fault is logged and dropped.
AggWriteMarker(i) ==
    /\ agg[i].pc = "mark"
    /\ LET g == CurGroup(i)
       IN /\ \E fault \in BOOLEAN :
               LET written == ~DISABLE_WINDOW_CHECKPOINT /\ ~fault
               IN /\ markers' = IF written THEN markers \cup {g} ELSE markers
                  /\ marked' = IF written THEN marked \cup {[inv |-> i, group |-> g]}
                               ELSE marked
                  /\ agg' = [agg EXCEPT ![i] =
                               [@ EXCEPT !.run_id = 0, !.etag = {}, !.ncalls = 0,
                                         !.faulted = @ \/ fault,
                                         !.queue = Tail(@), !.pc = "loop"]]
    /\ UNCHANGED <<launchVars, sweepVars, otherVars, clock, manifests, jobs, calls, puts, doneBefore>>

\* Lines 578-590: the partial-batch response.
AggReturn(i) ==
    /\ agg[i].pc = "loop"
    /\ agg[i].queue = <<>>
    /\ agg' = [agg EXCEPT ![i] = [IdleInvocation EXCEPT
                  !.pc = "done", !.batch = agg[i].batch, !.mids = agg[i].mids,
                  !.raised = agg[i].raised, !.faulted = agg[i].faulted,
                  !.jobs_created = agg[i].jobs_created, !.result = agg[i].result,
                  !.response = agg[i].failed]]
    /\ UNCHANGED <<launchVars, sweepVars, otherVars, clock, markers, manifests, jobs, calls, puts, marked, doneBefore>>

NextAgg ==
    \E i \in Invocations :
         \/ AggStart(i)
         \/ AggCheckMarker(i)
         \/ AggPutManifest(i)
         \/ AggHeadManifest(i)
         \/ AggCreateJob(i)
         \/ AggRetryHead(i)
         \/ AggRetryCreate(i)
         \/ AggWriteMarker(i)
         \/ AggReturn(i)

\* ========================================================================
\* Batch-Copy Launcher (launch_batch_job/lambda_function.py)
\* ========================================================================
\* Bounds of the model: hours and minutes the wall clock can show, and the
\* number of invocations.
MaxHour == 1

MaxMinute == 1

MaxRuns == 2

\* Two invocations can be in progress at once (two workflow executions).
Launchers == {"l1", "l2"}

CENTRAL_BUCKET_NAME == "central"

Times == (0..MaxHour) \X (0..MaxMinute)

NotBefore(t, u) == u[1] > t[1] \/ (u[1] = t[1] /\ u[2] >= t[2])

\* datetime.now(timezone.utc): the latest time read, or a later one.
LaunchNow(t) == {u \in Times : NotBefore(t, u)}

\* strftime("%Y%m%dT%H%MZ"): the date and hour (one count of hours here)
\* and the minute.
strftime_label(t) == <<"T", t[1], t[2]>>

\* hashlib.sha256(...).hexdigest(), taken as collision-free.
sha256(base_id) == <<"sha256", base_id>>

\* event.get(field, default)
Get(event, field, default) == IF field \in DOMAIN event THEN event[field] ELSE default

\* The temporary manifests the Sweep Planner left in the central container.
TempManifests == {1, 2}

TempKey(n) == <<"manifests/temp", n>>

TempBody(n) == <<"rows", n>>

\* lambda_handler lines 143-159: the canonical manifest key.
FinalManifestKey(criticality, backup_type, source_bucket, now, window_label) ==
    <<"manifests", criticality, backup_type, source_bucket, now[1], window_label>>

\* lambda_handler lines 133-140.
DataPrefix(criticality, backup_type, generation, source_bucket, now, window_label) ==
    <<"backup", criticality, backup_type, generation, source_bucket, now[1], window_label>>

\* lambda_handler lines 151-157.
ReportsPrefix(criticality, backup_type, generation, source_bucket, now) ==
    <<"reports", criticality, backup_type, generation, source_bucket, now[1]>>

GivenLabel == <<"T", 0, 0>>

LaunchEvent(bucket, key, generation, window_label) ==
    [manifest |-> [bucket |-> bucket, key |-> key], source_bucket |-> "b1",
     backup_type |-> "full", generation |-> generation, criticality |-> "Critico",
     window_label |-> window_label]

\* The events the workflow sends: a temporary manifest with the window
\* label, the other temporary manifest for another generation of the same
\* window, no label, optional fields left out, a manifest already at a
\* canonical key, a manifest in another container, a required field missing.
Events ==
    { LaunchEvent(CENTRAL_BUCKET_NAME, TempKey(1), "father", GivenLabel),
      LaunchEvent(CENTRAL_BUCKET_NAME, TempKey(2), "grandfather", GivenLabel),
      LaunchEvent(CENTRAL_BUCKET_NAME, TempKey(1), "father", <<>>),
      [manifest |-> [bucket |-> CENTRAL_BUCKET_NAME, key |-> TempKey(2)],
       source_bucket |-> "b1", backup_type |-> "full"],
      LaunchEvent(CENTRAL_BUCKET_NAME,
                  FinalManifestKey("Critico", "full", "b1", <<0, 0>>, GivenLabel),
                  "father", GivenLabel),
      LaunchEvent("other", TempKey(1), "father", GivenLabel),
      [manifest |-> [bucket |-> CENTRAL_BUCKET_NAME, key |-> TempKey(1)],
       backup_type |-> "full"] }

IdleLauncher ==
    [pc |-> "idle", event |-> <<>>, token |-> <<>>, temp_bucket |-> "",
     temp_key |-> <<>>, final_key |-> <<>>, final_etag |-> <<>>,
     data_prefix |-> <<>>, reports_prefix |-> <<>>,
     faulted |-> FALSE, ncreate |-> 0, mismatch |-> FALSE, began |-> 0]

InitLaunch ==
    /\ ltime = <<0, 0>>
    /\ lobjects = [k \in {TempKey(n) : n \in TempManifests} |-> TempBody(k[2])]
    /\ ljobs = {}
    /\ lau = [l \in Launchers |-> IdleLauncher]
    /\ lruns = <<>>

RemoveKey(objects, key) == [k \in DOMAIN objects \ {key} |-> objects[k]]

\* The invocation of launcher l ends: the handler returns or raises.
LaunchEnd(l, a, status, job_id, error, created) ==
    /\ lruns' = Append(lruns,
          [launcher |-> l, event |-> a.event, status |-> status, jobId |-> job_id,
           error |-> error, created |-> created, faulted |-> a.faulted,
           ncreate |-> a.ncreate, mismatch |-> a.mismatch, began |-> a.began,
           final_key |-> a.final_key, data_prefix |-> a.data_prefix,
           token |-> a.token])
    /\ lau' = [lau EXCEPT ![l] = IdleLauncher]

\* lambda_handler lines 243-253: the exception leaves the handler.
LaunchRaise(l, a, error) == LaunchEnd(l, a, "RAISED", <<>>, error, FALSE)

LaunchStarted == Len(lruns) + Cardinality({l \in Launchers : lau[l].pc # "idle"})

\* lambda_handler lines 112-171 and move_manifest_if_needed lines 37-48:
\* the event is read, the token and the keys are computed from it and from
\* two clock reads, and the promotion chooses its branch.
\* The slots are interchangeable: "l2" names an invocation that begins
\* while another one is in progress.
LaunchStart(l) ==
    /\ lau[l].pc = "idle"
    /\ l = "l2" => lau["l1"].pc # "idle"
    /\ LaunchStarted < MaxRuns
    /\ \E event \in Events :
         LET began == [IdleLauncher EXCEPT !.event = event, !.began = Len(lruns)]
         IN IF ~({"manifest", "source_bucket", "backup_type"} \subseteq DOMAIN event)
            THEN /\ LaunchRaise(l, began, "ValueError")
                 /\ UNCHANGED ltime
            ELSE \E t1 \in LaunchNow(ltime) : \E now \in LaunchNow(t1) :
                 LET backup_type == event.backup_type
                     generation == Get(event, "generation",
                                       IF backup_type = "full" THEN "father" ELSE "son")
                     criticality == Get(event, "criticality", "MenosCritico")
                     given == Get(event, "window_label", <<>>)
                     window_label == IF given = <<>> THEN strftime_label(t1) ELSE given
                     a == [began EXCEPT
                             !.token = sha256(<<event.source_bucket, backup_type,
                                                generation, criticality, window_label>>),
                             !.temp_bucket = event.manifest.bucket,
                             !.temp_key = event.manifest.key,
                             !.final_key = FinalManifestKey(criticality, backup_type,
                                              event.source_bucket, now, window_label),
                             !.data_prefix = DataPrefix(criticality, backup_type, generation,
                                              event.source_bucket, now, window_label),
                             !.reports_prefix = ReportsPrefix(criticality, backup_type,
                                              generation, event.source_bucket, now)]
                 IN /\ ltime' = now
                    /\ IF a.temp_key = a.final_key
                       THEN /\ lau' = [lau EXCEPT ![l] = [a EXCEPT !.pc = "head_final"]]
                            /\ UNCHANGED lruns
                       ELSE IF a.temp_bucket # CENTRAL_BUCKET_NAME
                       THEN LaunchRaise(l, a, "ValueError")
                       ELSE /\ lau' = [lau EXCEPT ![l] = [a EXCEPT !.pc = "copy"]]
                            /\ UNCHANGED lruns
    /\ UNCHANGED <<aggVars, sweepVars, otherVars, lobjects, ljobs>>

\* move_manifest_if_needed lines 37-41: the manifest is already at the
\* canonical key; its tag is read.  An error leaves the handler.
LaunchHeadFinal(l) ==
    /\ lau[l].pc = "head_final"
    /\ \E fault \in BOOLEAN :
         LET a == [lau[l] EXCEPT !.faulted = @ \/ fault]
         IN IF ~fault /\ a.final_key \in DOMAIN lobjects
            THEN /\ lau' = [lau EXCEPT ![l] = [a EXCEPT !.pc = "create",
                                  !.final_etag = lobjects[a.final_key]]]
                 /\ UNCHANGED lruns
            ELSE LaunchRaise(l, a, "head")
    /\ UNCHANGED <<aggVars, sweepVars, otherVars, ltime, lobjects, ljobs>>

\* move_manifest_if_needed lines 60-66: copy_object to the canonical key.
LaunchCopy(l) ==
    /\ lau[l].pc = "copy"
    /\ \E fault \in BOOLEAN :
         LET a == [lau[l] EXCEPT !.faulted = @ \/ fault]
         IN IF ~fault /\ a.temp_key \in DOMAIN lobjects
            THEN /\ lobjects' = (a.final_key :> lobjects[a.temp_key]) @@ lobjects
                 /\ lau' = [lau EXCEPT ![l] = [a EXCEPT !.pc = "verify"]]
            ELSE /\ lau' = [lau EXCEPT ![l] = [a EXCEPT !.pc = "cleanup"]]
                 /\ UNCHANGED lobjects
    /\ UNCHANGED <<aggVars, sweepVars, otherVars, ltime, ljobs, lruns>>

\* move_manifest_if_needed lines 69-70: head_object of the canonical key.
LaunchVerify(l) ==
    /\ lau[l].pc = "verify"
    /\ \E fault \in BOOLEAN :
         LET a == [lau[l] EXCEPT !.faulted = @ \/ fault]
         IN IF ~fault /\ a.final_key \in DOMAIN lobjects
            THEN lau' = [lau EXCEPT ![l] = [a EXCEPT !.pc = "delete_temp",
                                  !.final_etag = lobjects[a.final_key]]]
            ELSE lau' = [lau EXCEPT ![l] = [a EXCEPT !.pc = "cleanup"]]
    /\ UNCHANGED <<aggVars, sweepVars, otherVars, ltime, lobjects, ljobs, lruns>>

\* move_manifest_if_needed lines 73-76: delete_object of the temporary key.
LaunchDeleteTemp(l) ==
    /\ lau[l].pc = "delete_temp"
    /\ \E fault \in BOOLEAN :
         LET a == [lau[l] EXCEPT !.faulted = @ \/ fault]
         IN IF ~fault
            THEN /\ lobjects' = RemoveKey(lobjects, a.temp_key)
                 /\ lau' = [lau EXCEPT ![l] = [a EXCEPT !.pc = "create"]]
            ELSE /\ lau' = [lau EXCEPT ![l] = [a EXCEPT !.pc = "cleanup"]]
                 /\ UNCHANGED lobjects
    /\ UNCHANGED <<aggVars, sweepVars, otherVars, ltime, ljobs, lruns>>

\* move_manifest_if_needed lines 78-85: the except branch deletes the
\* canonical key (an error of the delete is passed over) and re-raises.
LaunchCleanup(l) ==
    /\ lau[l].pc = "cleanup"
    /\ \E fault \in BOOLEAN :
         /\ lobjects' = IF fault THEN lobjects ELSE RemoveKey(lobjects, lau[l].final_key)
         /\ LaunchRaise(l, [lau[l] EXCEPT !.faulted = @ \/ fault], "move")
    /\ UNCHANGED <<aggVars, sweepVars, otherVars, ltime, ljobs>>

\* The batch service's answer to create_job: the job already created for
\* the token, a rejection when the manifest is gone or when the tag is not
\* the manifest's, or a new job.
LaunchServiceAnswer(token, manifest_key, manifest_etag) ==
    IF \E j \in ljobs : j.token = token THEN "existing"
    ELSE IF manifest_key \notin DOMAIN lobjects THEN "NoSuchKey"
    ELSE IF lobjects[manifest_key] # manifest_etag THEN "ETag"
    ELSE "created"

\* lambda_handler lines 187-241: the single create_job call and the return.
LaunchCreateJob(l) ==
    /\ lau[l].pc = "create"
    /\ \E fault \in BOOLEAN :
         LET answer == IF fault THEN "other"
                       ELSE LaunchServiceAnswer(lau[l].token, lau[l].final_key,
                                                lau[l].final_etag)
             a == [lau[l] EXCEPT !.faulted = @ \/ fault, !.ncreate = @ + 1,
                                 !.mismatch = @ \/ (answer = "ETag")]
             job_id == <<"job", a.token>>
         IN CASE answer = "created" ->
                   /\ ljobs' = ljobs \cup
                        {[id |-> job_id, token |-> a.token, manifest_key |-> a.final_key,
                          etag |-> a.final_etag, data_prefix |-> a.data_prefix,
                          reports_prefix |-> a.reports_prefix]}
                   /\ LaunchEnd(l, a, "JOB_CREATED", job_id, "", TRUE)
              [] answer = "existing" ->
                   /\ UNCHANGED ljobs
                   /\ LaunchEnd(l, a, "JOB_CREATED", job_id, "", FALSE)
              [] OTHER ->
                   /\ UNCHANGED ljobs
                   /\ LaunchRaise(l, a, answer)
    /\ UNCHANGED <<aggVars, sweepVars, otherVars, ltime, lobjects>>

NextLaunch ==
    \E l \in Launchers :
         \/ LaunchStart(l)
         \/ LaunchHeadFinal(l)
         \/ LaunchCopy(l)
         \/ LaunchVerify(l)
         \/ LaunchDeleteTemp(l)
         \/ LaunchCleanup(l)
         \/ LaunchCreateJob(l)

\* ========================================================================
\* Sweep Planner (filter_inventory/lambda_function.py)
\* ========================================================================
\* Bounds of the model: the wall clock, the number of invocations, the rows
\* of a listing page, and the rows that fill a part of MIN_CHUNK_SIZE_BYTES.
MaxSweepClock == 2

MaxSweeps == 2

PageSize == 2

MIN_CHUNK_SIZE_ROWS == 2

None == -1

\* The deployment's settings (environment variables, lines 30-47).
SweepConf(force, max_objects, time_limit, prefixes) ==
    [FORCE_FULL_ON_FIRST_RUN |-> force, FALLBACK_MAX_OBJECTS |-> max_objects,
     FALLBACK_TIME_LIMIT_SECONDS |-> time_limit, prefixes |-> prefixes]

DefaultSweepConf == SweepConf(FALSE, 0, 0, <<>>)

SweepConfs ==
    { DefaultSweepConf,
      SweepConf(TRUE, 0, 0, <<>>),
      SweepConf(FALSE, 1, 0, << <<"a">> >>),
      SweepConf(FALSE, 1, 0, <<>>),
      SweepConf(TRUE, 0, 1, << <<"a">> >>) }

\* str.split(sep)
RECURSIVE SplitAt(_, _, _)
SplitAt(s, sep, cur) ==
    IF s = <<>> THEN <<cur>>
    ELSE IF Head(s) = sep THEN <<cur>> \o SplitAt(Tail(s), sep, <<>>)
    ELSE SplitAt(Tail(s), sep, Append(cur, Head(s)))

split(s, sep) == SplitAt(s, sep, <<>>)

\* str.strip()
RECURSIVE lstrip(_)
lstrip(s) == IF s # <<>> /\ Head(s) = " " THEN lstrip(Tail(s)) ELSE s

RECURSIVE rstrip(_)
rstrip(s) == IF s # <<>> /\ s[Len(s)] = " " THEN rstrip(SubSeq(s, 1, Len(s) - 1)) ELSE s

strip(s) == rstrip(lstrip(s))

\* str.replace(old, new): left to right, without overlap.
RECURSIVE replace(_, _, _)
replace(s, old, new) ==
    IF Len(s) < Len(old) THEN s
    ELSE IF SubSeq(s, 1, Len(old)) = old
    THEN new \o replace(SubSeq(s, Len(old) + 1, Len(s)), old, new)
    ELSE <<Head(s)>> \o replace(Tail(s), old, new)

\* list.index(x), counted from 1 as the rows are.
index(columns, x) ==
    CHOOSE i \in 1..Len(columns) : columns[i] = x /\ \A j \in 1..(i - 1) : columns[j] # x

BucketCol == <<"B", "u", "c", "k", "e", "t">>

KeyCol == <<"K", "e", "y">>

LastModifiedDateCol ==
    <<"L", "a", "s", "t", "M", "o", "d", "i", "f", "i", "e", "d", "D", "a", "t", "e">>

SizeCol == <<"S", "i", "z", "e">>

\* get_column_indices: ok = FALSE stands for the ValueError.
get_column_indices(schema_string) ==
    LET parts == split(schema_string, ",")
        columns == [i \in 1..Len(parts) |-> strip(parts[i])]
        required == {BucketCol, KeyCol, LastModifiedDateCol}
    IN IF \E field \in required : \A i \in 1..Len(columns) : columns[i] # field
       THEN [ok |-> FALSE, bucket |-> 0, key |-> 0, last_modified |-> 0]
       ELSE [ok |-> TRUE, bucket |-> index(columns, BucketCol),
             key |-> index(columns, KeyCol),
             last_modified |-> index(columns, LastModifiedDateCol)]

\* datetime.fromisoformat of a date column: a time, or None when the text
\* is not a date (a negative number stands for such a text).
fromisoformat(text) == IF text >= 0 THEN text ELSE None

\* ---- the source container and the enumeration the planner reads
SweepSource == <<"b">>

SourceObjects ==
    << [Key |-> <<"a", "1">>, LastModified |-> 0],
       [Key |-> <<"a", "2">>, LastModified |-> 1],
       [Key |-> <<"c">>, LastModified |-> 2],
       [Key |-> <<"t", "/", "1">>, LastModified |-> 1] >>

Comma == <<",", " ">>

SchemaFull == BucketCol \o Comma \o KeyCol \o Comma \o SizeCol \o Comma \o LastModifiedDateCol

SchemaNoDate == BucketCol \o Comma \o KeyCol

\* Shard rows in the order of SchemaFull: bucket, key, size, date.
ShardRows ==
    << <<SweepSource, <<"a", "1">>, 1, 0>>,
       <<SweepSource, <<"a", "2">>, 1, 1>>,
       <<SweepSource, <<"x">>, 1, None>>,
       <<SweepSource, <<"c">>, 1, 2>>,
       <<SweepSource, <<"t", "/", "1">>, 1, 1>> >>

\* The shard of an enumeration taken before a2, c and t/1 were written.
EarlyRows == << <<SweepSource, <<"a", "1">>, 1, 0>> >>

ShortRows == << <<SweepSource, <<"a", "1">>, 1, 1>>, <<SweepSource, <<"a", "2">>>> >>

ShardKey(n) == <<"i", "/", "/", n>>

Descriptor(schema, files) == [fileSchema |-> schema, files |-> files]

Files == << [key |-> ShardKey("1")], [size |-> 0], [key |-> ShardKey("2")] >>

\* What an invocation can find under the enumeration prefix: nothing, a
\* descriptor with its shards (the second one missing), a descriptor whose
\* schema lacks a required column, one with no schema at all, and one whose
\* shard holds a row with too few columns; and an earlier enumeration.
NoInventory == [none |-> TRUE]

Worlds ==
    { [descriptor |-> NoInventory, shards |-> <<>>],
      [descriptor |-> Descriptor(SchemaFull, Files),
       shards |-> (<<"i", "/", "1">> :> ShardRows)],
      [descriptor |-> Descriptor(SchemaNoDate, Files),
       shards |-> (<<"i", "/", "1">> :> ShardRows)],
      [descriptor |-> [files |-> Files],
       shards |-> (<<"i", "/", "1">> :> ShardRows)],
      [descriptor |-> Descriptor(SchemaFull, Files),
       shards |-> (<<"i", "/", "1">> :> ShortRows)],
      [descriptor |-> Descriptor(SchemaFull, Files),
       shards |-> (<<"i", "/", "1">> :> EarlyRows)] }

SweepEvent(backup_type) ==
    [backup_bucket |-> CENTRAL_BUCKET_NAME, source_bucket |-> SweepSource,
     backup_type |-> backup_type, inventory_key |-> <<"i">>, criticality |-> "Critico"]

SweepEvents ==
    { SweepEvent("full"), SweepEvent("incremental"),
      [backup_bucket |-> CENTRAL_BUCKET_NAME, backup_type |-> "full"] }

\* list_objects_v2 with a prefix, cut into pages.
RECURSIVE SelectSeq2(_, _)
SelectSeq2(objs, pfx) ==
    IF objs = <<>> THEN <<>>
    ELSE IF StartsWith(Head(objs).Key, pfx) THEN <<Head(objs)>> \o SelectSeq2(Tail(objs), pfx)
    ELSE SelectSeq2(Tail(objs), pfx)

RECURSIVE Paginate(_)
Paginate(objs) ==
    IF Len(objs) <= PageSize THEN <<objs>>
    ELSE <<SubSeq(objs, 1, PageSize)>> \o Paginate(SubSeq(objs, PageSize + 1, Len(objs)))

ListPages(pfx) == Paginate(SelectSeq2(SourceObjects, pfx))

IdleSweep ==
    [pc |-> "idle", event |-> <<>>, world |-> <<>>, manifest_key |-> FALSE,
     last_cp |-> None, cp_exists |-> FALSE, effective |-> "", upload_id |-> <<>>, temp_key |-> <<>>,
     indices |-> <<>>, file |-> 1, pfx |-> 1, page |-> 1, start_time |-> 0,
     buffer |-> <<>>, parts |-> <<>>, found |-> 0, error |-> "", part_fault |-> FALSE]

InitSweepState ==
    /\ stime = 0
    /\ uploads = <<>>
    /\ sobjects = <<>>
    /\ checkpoints = <<>>
    /\ sw = IdleSweep
    /\ sruns = <<>>

\* The Sweep Planner as deployed with any of the settings.
InitSweep == InitSweepState /\ sconf \in SweepConfs

\* The Sweep Planner at rest while another handler is examined.
InitSweepIdle == InitSweepState /\ sconf = DefaultSweepConf

SweepNow == stime..MaxSweepClock

RECURSIVE Flatten(_)
Flatten(parts) == IF parts = <<>> THEN <<>> ELSE Head(parts) \o Flatten(Tail(parts))

\* lambda_handler lines 466-500: the handler returns its status.
SweepEnd(a, status, rows, cp_time) ==
    /\ sruns' = Append(sruns,
          [status |-> status, event |-> a.event, world |-> a.world,
           manifest_key |-> a.manifest_key, last_cp |-> a.last_cp,
           cp_exists |-> a.cp_exists, effective |-> a.effective, upload_id |-> a.upload_id,
           temp_key |-> a.temp_key, rows |-> rows, found |-> a.found,
           cp_written |-> (cp_time # None), cp_time |-> cp_time])
    /\ sw' = IdleSweep

\* abort_multipart_upload, taken to succeed.
AbortUpload(a) == uploads' = [uploads EXCEPT ![a.upload_id] = "aborted"]

\* The except branches of the two manifest writers (lines 270-277 and
\* 398-405) followed by the handler's (lines 492-500).
SweepAbortAndFail(a) == AbortUpload(a) /\ SweepEnd(a, "FAILED", <<>>, None)

\* lambda_handler lines 417-446: the event fields, the search for the
\* latest descriptor, the checkpoint read, the effective mode and, when a
\* descriptor was found, its read.
SweepStart ==
    /\ sw.pc = "idle"
    /\ Len(sruns) < MaxSweeps
    /\ \E event \in SweepEvents, world \in Worlds :
       \E list_fault \in BOOLEAN, cp_fault \in BOOLEAN, get_fault \in BOOLEAN :
         LET a0 == [IdleSweep EXCEPT !.event = event, !.world = world]
         IN IF ~({"backup_bucket", "source_bucket", "backup_type", "inventory_key"}
                    \subseteq DOMAIN event)
            THEN SweepEnd(a0, "FAILED", <<>>, None)
            ELSE LET manifest_key == ~list_fault /\ "none" \notin DOMAIN world.descriptor
                     cp_key == <<event.source_bucket, event.backup_type>>
                     last_cp == IF cp_fault \/ cp_key \notin DOMAIN checkpoints
                                THEN None ELSE checkpoints[cp_key]
                     effective == IF /\ event.backup_type = "incremental"
                                     /\ last_cp = None
                                     /\ sconf.FORCE_FULL_ON_FIRST_RUN
                                  THEN "full" ELSE event.backup_type
                     a == [a0 EXCEPT !.manifest_key = manifest_key, !.last_cp = last_cp,
                                     !.cp_exists = cp_key \in DOMAIN checkpoints,
                                     !.effective = effective]
                 IN IF manifest_key /\ get_fault
                    THEN SweepEnd(a, "FAILED", <<>>, None)
                    ELSE /\ sw' = [a EXCEPT !.pc = IF manifest_key THEN "create_inventory"
                                                  ELSE "create_listing"]
                         /\ UNCHANGED sruns
    /\ UNCHANGED <<aggVars, launchVars, otherVars, sconf, stime, uploads, sobjects, checkpoints>>

NewUpload(a) ==
    [a EXCEPT !.upload_id = <<"upload", Len(sruns) + 1>>,
              !.temp_key = <<"manifests/temp", a.event.source_bucket, Len(sruns) + 1>>]

\* stream_inventory_to_manifest lines 150-172: the upload is started, then
\* the column indices are taken from the descriptor's schema.
SweepCreateInventoryUpload ==
    /\ sw.pc = "create_inventory"
    /\ \E fault \in BOOLEAN :
         IF fault
         THEN /\ SweepEnd(sw, "FAILED", <<>>, None)
              /\ UNCHANGED uploads
         ELSE LET a == NewUpload(sw)
                  manifest == a.world.descriptor
              IN /\ uploads' = (a.upload_id :> "pending") @@ uploads
                 /\ IF "fileSchema" \notin DOMAIN manifest
                    THEN SweepEnd(a, "FAILED", <<>>, None)
                    ELSE LET indices == get_column_indices(manifest.fileSchema)
                         IN IF ~indices.ok
                            THEN SweepEnd(a, "FAILED", <<>>, None)
                            ELSE /\ sw' = [a EXCEPT !.pc = "shards", !.indices = indices]
                                 /\ UNCHANGED sruns
    /\ UNCHANGED <<aggVars, launchVars, otherVars, sconf, stime, sobjects, checkpoints>>

\* generate_manifest_from_listing lines 298-317.
SweepCreateListingUpload ==
    /\ sw.pc = "create_listing"
    /\ \E fault \in BOOLEAN :
         IF fault
         THEN /\ SweepEnd(sw, "FAILED", <<>>, None)
              /\ UNCHANGED <<uploads, stime>>
         ELSE \E now \in SweepNow :
              LET a == NewUpload(sw)
              IN /\ uploads' = (a.upload_id :> "pending") @@ uploads
                 /\ stime' = now
                 /\ sw' = [a EXCEPT !.pc = "list", !.start_time = now]
                 /\ UNCHANGED sruns
    /\ UNCHANGED <<aggVars, launchVars, otherVars, sconf, sobjects, checkpoints>>

\* upload_part once the buffer has reached the minimum part size.
FlushIfFull(st) ==
    IF Len(st.buffer) < MIN_CHUNK_SIZE_ROWS THEN st
    ELSE IF st.part_fault THEN [st EXCEPT !.error = "upload_part"]
    ELSE [st EXCEPT !.parts = Append(@, st.buffer), !.buffer = <<>>]

WriteRow(st, row) == [st EXCEPT !.buffer = Append(@, row), !.found = @ + 1]

CoveredByCheckpoint_Strictly(last_mod_dt, last_checkpoint) ==
    last_checkpoint # None /\ last_mod_dt < last_checkpoint

\* stream_inventory_to_manifest lines 213-215: the row is not newer than
\* the checkpoint.
CoveredByCheckpoint(last_mod_dt, last_checkpoint) ==
    last_checkpoint # None /\ last_mod_dt <= last_checkpoint

\* stream_inventory_to_manifest lines 198-232: the rows of one shard.
RECURSIVE StreamRows(_, _, _, _, _)
StreamRows(st, rows, indices, prefixes, last_checkpoint) ==
    IF rows = <<>> \/ st.error # "" THEN st
    ELSE LET row == Head(rows)
             rest == Tail(rows)
         IN IF \E idx \in {indices.bucket, indices.key, indices.last_modified} : idx > Len(row)
            THEN [st EXCEPT !.error = "IndexError"]
            ELSE LET object_bucket == row[indices.bucket]
                     object_key == row[indices.key]
                     last_mod_dt == fromisoformat(row[indices.last_modified])
                 IN IF last_mod_dt = None
                    THEN StreamRows(st, rest, indices, prefixes, last_checkpoint)
                    ELSE IF /\ prefixes # <<>>
                            /\ ~\E i \in 1..Len(prefixes) : StartsWith(object_key, prefixes[i])
                    THEN StreamRows(st, rest, indices, prefixes, last_checkpoint)
                    ELSE IF CoveredByCheckpoint(last_mod_dt, last_checkpoint)
                    THEN StreamRows(st, rest, indices, prefixes, last_checkpoint)
                    ELSE StreamRows(FlushIfFull(WriteRow(st, <<object_bucket, object_key>>)),
                                    rest, indices, prefixes, last_checkpoint)

\* stream_inventory_to_manifest lines 182-186.
CleanDataKey(data_key, source_bucket) ==
    LET duplicate_pattern == <<"/">> \o source_bucket \o <<"/", "/">> \o source_bucket \o <<"/">>
        correct_segment == <<"/">> \o source_bucket \o <<"/">>
        once == IF Contains(data_key, duplicate_pattern)
                THEN replace(data_key, duplicate_pattern, correct_segment)
                ELSE data_key
    IN replace(once, <<"/", "/">>, <<"/">>)

\* The checkpoint the manifest writers are given (lines 454 and 463).
WriterCheckpoint(a) == IF a.effective = "full" THEN None ELSE a.last_cp

\* stream_inventory_to_manifest lines 175-232: one entry of the
\* descriptor's file list; the shard is read and its rows are filtered.
SweepShard ==
    /\ sw.pc = "shards"
    /\ sw.file <= Len(sw.world.descriptor.files)
    /\ LET file_info == sw.world.descriptor.files[sw.file]
           next == [sw EXCEPT !.file = @ + 1]
       IN IF "key" \notin DOMAIN file_info
          THEN /\ sw' = next
               /\ UNCHANGED <<uploads, sruns>>
          ELSE \E fault \in {"none", "get_object", "upload_part"} :
               LET data_key == CleanDataKey(file_info.key, sw.event.source_bucket)
               IN IF fault = "get_object"
                  THEN SweepAbortAndFail(sw)
                  ELSE IF data_key \notin DOMAIN sw.world.shards
                  THEN /\ sw' = next
                       /\ UNCHANGED <<uploads, sruns>>
                  ELSE LET st == StreamRows([next EXCEPT !.part_fault = (fault = "upload_part")],
                                            sw.world.shards[data_key], sw.indices,
                                            sconf.prefixes, WriterCheckpoint(sw))
                       IN IF st.error # ""
                          THEN SweepAbortAndFail(st)
                          ELSE /\ sw' = [st EXCEPT !.part_fault = FALSE]
                               /\ UNCHANGED <<uploads, sruns>>
    /\ UNCHANGED <<aggVars, launchVars, otherVars, sconf, stime, sobjects, checkpoints>>

\* generate_manifest_from_listing lines 327-361: the objects of one page.
\* A cap that is reached ends the loop over the page (break).
RECURSIVE ListRows(_, _, _, _, _)
ListRows(st, objs, source_bucket, last_checkpoint, elapsed) ==
    IF objs = <<>> \/ st.error # "" THEN st
    ELSE LET obj == Head(objs)
             rest == Tail(objs)
         IN IF last_checkpoint # None /\ obj.LastModified <= last_checkpoint
            THEN ListRows(st, rest, source_bucket, last_checkpoint, elapsed)
            ELSE LET w == WriteRow(st, <<source_bucket, obj.Key>>)
                 IN IF /\ sconf.FALLBACK_MAX_OBJECTS # 0
                       /\ w.found >= sconf.FALLBACK_MAX_OBJECTS
                    THEN w
                    ELSE IF /\ sconf.FALLBACK_TIME_LIMIT_SECONDS # 0
                            /\ elapsed >= sconf.FALLBACK_TIME_LIMIT_SECONDS
                    THEN w
                    ELSE ListRows(FlushIfFull(w), rest, source_bucket, last_checkpoint, elapsed)

\* generate_manifest_from_listing lines 313-314.
ListingPrefixes == IF sconf.prefixes # <<>> THEN sconf.prefixes ELSE << <<>> >>

\* generate_manifest_from_listing lines 319-361: one page of the listing
\* of the current prefix.  The clock is read only when a time limit is set.
SweepListPage ==
    /\ sw.pc = "list"
    /\ sw.pfx <= Len(ListingPrefixes)
    /\ \E fault \in {"none", "list_objects", "upload_part"} :
       \E now \in (IF sconf.FALLBACK_TIME_LIMIT_SECONDS # 0 THEN SweepNow ELSE {stime}) :
         LET pages == ListPages(ListingPrefixes[sw.pfx])
             next == IF sw.page < Len(pages)
                     THEN [sw EXCEPT !.page = @ + 1]
                     ELSE [sw EXCEPT !.pfx = @ + 1, !.page = 1]
             st == ListRows([next EXCEPT !.part_fault = (fault = "upload_part")],
                            pages[sw.page], sw.event.source_bucket,
                            WriterCheckpoint(sw), now - sw.start_time)
         IN /\ stime' = now
            /\ IF fault = "list_objects" \/ st.error # ""
               THEN SweepAbortAndFail(sw)
               ELSE /\ sw' = [st EXCEPT !.part_fault = FALSE]
                    /\ UNCHANGED <<uploads, sruns>>
    /\ UNCHANGED <<aggVars, launchVars, otherVars, sconf, sobjects, checkpoints>>

\* A faulty variant of CheckpointTimestamp: the time the listing began.
CheckpointTimestamp_Start(a, now) == a.start_time

\* lambda_handler line 476: the timestamp handed to write_checkpoint.
CheckpointTimestamp(a, now) == now

\* The end of both manifest writers (lines 234-268 and 363-396) and of the
\* handler (lines 466-490): the last part, the abort of an empty manifest
\* or the completion of the upload, the checkpoint write, whose error
\* write_checkpoint passes over, and the returned status.
FinishUpload(a) ==
    \E fault \in {"none", "upload_part", "complete", "put_checkpoint"} :
    \E now \in SweepNow :
      LET parts == IF Len(a.buffer) > 0 THEN Append(a.parts, a.buffer) ELSE a.parts
          checkpoint_type == IF sconf.FORCE_FULL_ON_FIRST_RUN THEN a.effective
                             ELSE a.event.backup_type
          cp_key == <<a.event.source_bucket, checkpoint_type>>
      IN IF Len(a.buffer) > 0 /\ fault = "upload_part"
         THEN /\ SweepAbortAndFail(a)
              /\ UNCHANGED <<stime, sobjects, checkpoints>>
         ELSE IF a.found = 0
         THEN /\ AbortUpload(a)
              /\ SweepEnd(a, "EMPTY", <<>>, None)
              /\ UNCHANGED <<stime, sobjects, checkpoints>>
         ELSE IF fault = "complete"
         THEN /\ SweepAbortAndFail(a)
              /\ UNCHANGED <<stime, sobjects, checkpoints>>
         ELSE /\ uploads' = [uploads EXCEPT ![a.upload_id] = "completed"]
              /\ sobjects' = (a.temp_key :> Flatten(parts)) @@ sobjects
              /\ stime' = now
              /\ checkpoints' = IF fault = "put_checkpoint" THEN checkpoints
                                ELSE (cp_key :> CheckpointTimestamp(a, now)) @@ checkpoints
              /\ SweepEnd(a, "SUCCESS", Flatten(parts),
                          IF fault = "put_checkpoint" THEN None
                          ELSE CheckpointTimestamp(a, now))

SweepFinishInventory ==
    /\ sw.pc = "shards"
    /\ sw.file > Len(sw.world.descriptor.files)
    /\ FinishUpload(sw)
    /\ UNCHANGED <<aggVars, launchVars, otherVars, sconf>>

SweepFinishListing ==
    /\ sw.pc = "list"
    /\ sw.pfx > Len(ListingPrefixes)
    /\ FinishUpload(sw)
    /\ UNCHANGED <<aggVars, launchVars, otherVars, sconf>>

NextSweep ==
    \/ SweepStart
    \/ SweepCreateInventoryUpload
    \/ SweepCreateListingUpload
    \/ SweepShard
    \/ SweepListPage
    \/ SweepFinishInventory
    \/ SweepFinishListing

\* ========================================================================
\* Specifications: one handler is examined at a time, the others at rest.
\* ========================================================================
\* ========================================================================
\* Discovery Reconciler (find_resources/lambda_function.py)
\* ========================================================================
MaxDiscRuns == 2

notification_max_attempts == 7

notification_id == "BckIncrementalTrigger-SQS"

sqs_queue_arn == "queue"

CRITICALITIES_WITH_NOTIFICATIONS == {"Critico"}

INVENTORY_FREQUENCIES == [Critico |-> "Weekly", MenosCritico |-> "Weekly", NoCritico |-> "Weekly"]

\* The containers the tag scan finds, and the tier tag of each.
DiscContainers == <<"c1", "c2">>

ContainerTier == [c1 |-> "Critico", c2 |-> "NoCritico"]

\* An event name split at its colons.
ObjectCreatedAll == <<"s3", "ObjectCreated", "*">>

ObjectRemovedAll == <<"s3", "ObjectRemoved", "*">>

ObjectCreatedPut == <<"s3", "ObjectCreated", "Put">>

QueueEntry(id, arn, events) == [Id |-> id, QueueArn |-> arn, Events |-> events]

TriggerEntry(queue_arn) == QueueEntry(notification_id, queue_arn, <<ObjectCreatedAll>>)

ForeignEntry == QueueEntry("audit", "other-queue", <<ObjectRemovedAll>>)

\* A queue entry of another origin for the event queue itself, subscribed to
\* an object-created event.
UploadsEntry == QueueEntry("uploads", sqs_queue_arn, <<ObjectCreatedPut>>)

TopicEntry == [Id |-> "alerts", TopicArn |-> "topic", Events |-> <<ObjectRemovedAll>>]

FunctionEntry ==
    [Id |-> "thumbs", LambdaFunctionArn |-> "function", Events |-> <<ObjectCreatedAll>>]

\* A notification configuration: the answer of
\* get_bucket_notification_configuration without ResponseMetadata.
NotificationConfiguration(queue_configs, topic_configs, function_configs) ==
    [QueueConfigurations |-> queue_configs, TopicConfigurations |-> topic_configs,
     LambdaFunctionConfigurations |-> function_configs]

NoNotifications == NotificationConfiguration(<<>>, <<>>, <<>>)

\* Configurations a container can have before a run: none, the trigger entry,
\* an entry with the trigger's identifier for another queue, a foreign queue
\* entry next to the trigger entry, and entries of other origins (a queue
\* entry for the event queue, a topic entry and a function entry).
PriorNotifications ==
    { NoNotifications,
      NotificationConfiguration(<<TriggerEntry(sqs_queue_arn)>>, <<>>, <<>>),
      NotificationConfiguration(<<TriggerEntry("other-queue")>>, <<>>, <<>>),
      NotificationConfiguration(<<ForeignEntry, TriggerEntry(sqs_queue_arn)>>, <<>>, <<>>),
      NotificationConfiguration(<<UploadsEntry>>, <<TopicEntry>>, <<FunctionEntry>>) }

_is_object_created(cfg) ==
    \E n \in 1..Len(cfg.Events) :
        cfg.Events[n][1] = "s3" /\ cfg.Events[n][2] = "ObjectCreated"

\* ensure_event_notification_is_configured, lines 192-240: the configuration
\* to write, from the answer of the read ("NoSuchConfiguration" or entries).
EnsuredConfiguration(get_fault, current_config, queue_arn) ==
    IF get_fault = "NoSuchConfiguration"
    THEN NotificationConfiguration(<<TriggerEntry(queue_arn)>>, <<>>, <<>>)
    ELSE LET queue_configs == current_config.QueueConfigurations
             appended == Append(queue_configs, TriggerEntry(queue_arn))
             qcfgs == SelectSeq(appended,
                        LAMBDA q : ~(q.QueueArn = queue_arn /\ _is_object_created(q)))
         IN [current_config EXCEPT
                !.QueueConfigurations = Append(qcfgs, TriggerEntry(queue_arn))]

\* remove_event_notification_if_exists, line 288.
WithoutTrigger(queue_configs) ==
    SelectSeq(queue_configs, LAMBDA q : q.Id # notification_id)

\* The latest write of a notification configuration (observation only): the
\* function that issued it, the store's answer, the attempt's number and what
\* the function did next.
NoWrite == [path |-> "none", answer |-> "", attempt |-> 0, outcome |-> ""]

IdleDiscovery ==
    [pc |-> "idle", queue |-> <<>>, criticality |-> "", current_config |-> <<>>,
     attempt |-> 0, Buckets |-> <<>>, Errors |-> <<>>, before |-> <<>>, runs |-> 0,
     write |-> NoWrite, inv_before |-> <<>>, inv_writes |-> {}]

\* create_inventory_configuration, lines 93-116: the configuration written,
\* with its destination container and the prefix under the destination.
InventoryConfiguration(central_bucket_name, frequency) ==
    [Frequency |-> frequency, Bucket |-> central_bucket_name,
     Prefix |-> <<"inventory-source">>]

\* The answer NoSuchConfiguration of get_bucket_inventory_configuration.
NoSuchConfiguration == [Frequency |-> "none", Bucket |-> "", Prefix |-> <<>>]

\* Enumeration configurations a container can have before a run: none, one
\* written by an earlier run with either frequency, and one of another
\* origin with the target frequency that delivers to another container.
PriorInventories ==
    { NoSuchConfiguration,
      InventoryConfiguration(CENTRAL_BUCKET_NAME, "Daily"),
      InventoryConfiguration(CENTRAL_BUCKET_NAME, "Weekly"),
      [Frequency |-> "Weekly", Bucket |-> "other", Prefix |-> <<"reports">>] }

InitDiscIdle ==
    /\ notif = [c \in DOMAIN ContainerTier |-> NoNotifications]
    /\ inventory = [c \in DOMAIN ContainerTier |-> NoSuchConfiguration]
    /\ disc = IdleDiscovery

InitDisc ==
    /\ notif \in [DOMAIN ContainerTier -> PriorNotifications]
    /\ inventory \in [DOMAIN ContainerTier -> PriorInventories]
    /\ disc = IdleDiscovery

\* A faulty variant of DiscFail: the error ends the loop over the containers.
DiscFail_Aborting(d) ==
    [d EXCEPT !.Errors = Append(@, Head(d.queue)), !.queue = <<>>,
              !.pc = "container", !.attempt = 0, !.current_config = <<>>]

\* The except branch of the container loop (lines 434-437), and the next one.
DiscFail(d) ==
    [d EXCEPT !.Errors = Append(@, Head(d.queue)), !.queue = Tail(@),
              !.pc = "container", !.attempt = 0, !.current_config = <<>>]

\* Lines 423-432: the container is reported as configured, and the next one.
DiscConfigured(d) ==
    [d EXCEPT !.Buckets = Append(@, [source_bucket |-> Head(d.queue),
                                     criticality |-> d.criticality]),
              !.queue = Tail(@), !.pc = "container", !.attempt = 0,
              !.current_config = <<>>]

\* Lines 351-393: the tag scan; its fault leaves the handler.
DiscStart ==
    /\ disc.pc \in {"idle", "done", "raised"}
    /\ disc.runs < MaxDiscRuns
    /\ \E fault \in BOOLEAN :
         disc' = IF fault THEN [IdleDiscovery EXCEPT !.pc = "raised", !.runs = disc.runs + 1]
                 ELSE [IdleDiscovery EXCEPT !.pc = "container", !.queue = DiscContainers,
                                            !.before = notif, !.inv_before = inventory,
                                            !.runs = disc.runs + 1]
    /\ UNCHANGED <<aggVars, launchVars, sweepVars, flt, restVars, win, man, notif, inventory>>

\* A faulty variant of InventoryWriteNeeded: the configuration is written on
\* every run.
InventoryWriteNeeded_Always(current_freq, frequency) == TRUE

\* ensure_inventory_exists, lines 147-173: the configuration is created when
\* the read answers NoSuchConfiguration ("none") or another frequency.
InventoryWriteNeeded(current_freq, frequency) == current_freq # frequency

\* Lines 395-420: the tier of the next container (get_bucket_criticality) and
\* its enumeration configuration (ensure_inventory_exists, lines 134-176).
\* inv_writes remembers the containers a configuration write was issued for.
DiscInventory ==
    /\ disc.pc = "container"
    /\ disc.queue # <<>>
    /\ LET bucket_name == Head(disc.queue)
           criticality == ContainerTier[bucket_name]
           frequency == INVENTORY_FREQUENCIES[criticality]
           create == InventoryWriteNeeded(inventory[bucket_name].Frequency, frequency)
       IN \E tag_fault, get_fault, put_fault \in BOOLEAN :
            LET issued == ~tag_fault /\ ~get_fault /\ create
                writes == IF issued THEN disc.inv_writes \cup {bucket_name}
                          ELSE disc.inv_writes
            IN IF tag_fault \/ get_fault \/ (create /\ put_fault)
               THEN /\ disc' = [DiscFail(disc) EXCEPT !.inv_writes = writes]
                    /\ UNCHANGED inventory
               ELSE /\ inventory' = IF create
                                     THEN [inventory EXCEPT ![bucket_name] =
                                             InventoryConfiguration(CENTRAL_BUCKET_NAME,
                                                                    frequency)]
                                     ELSE inventory
                    /\ disc' = [disc EXCEPT !.criticality = criticality,
                                 !.inv_writes = writes,
                                 !.pc = IF criticality \in CRITICALITIES_WITH_NOTIFICATIONS
                                        THEN "ensure" ELSE "remove"]
    /\ UNCHANGED <<aggVars, launchVars, sweepVars, flt, restVars, win, man, notif>>

\* ensure_event_notification_is_configured, lines 189-240: the read and the
\* configuration built from it.
DiscReadNotification ==
    /\ disc.pc = "ensure"
    /\ LET bucket_name == Head(disc.queue)
       IN \E get_fault \in {"none", "NoSuchConfiguration", "other"} :
            /\ get_fault = "NoSuchConfiguration" => notif[bucket_name] = NoNotifications
            /\ disc' = IF get_fault = "other" THEN DiscFail(disc)
                       ELSE [disc EXCEPT
                               !.current_config =
                                   EnsuredConfiguration(get_fault, notif[bucket_name],
                                                        sqs_queue_arn),
                               !.attempt = 1, !.pc = "put"]
    /\ UNCHANGED <<aggVars, launchVars, sweepVars, flt, restVars, win, man, notif, inventory>>

\* Lines 242-272: one attempt of the write; a conflict is retried while
\* attempts remain, any other fault is raised.
DiscPutNotification ==
    /\ disc.pc = "put"
    /\ LET bucket_name == Head(disc.queue)
       IN \E answer \in {"ok", "conflict", "other"} :
            LET retry == answer = "conflict" /\ disc.attempt < notification_max_attempts
                next == IF answer = "ok" THEN DiscConfigured(disc)
                        ELSE IF retry THEN [disc EXCEPT !.attempt = @ + 1]
                        ELSE DiscFail(disc)
            IN /\ notif' = IF answer = "ok"
                            THEN [notif EXCEPT ![bucket_name] = disc.current_config]
                            ELSE notif
               /\ disc' = [next EXCEPT !.write =
                             [path |-> "ensure", answer |-> answer, attempt |-> disc.attempt,
                              outcome |-> IF answer = "ok" THEN "succeeded"
                                          ELSE IF retry THEN "retry" ELSE "failed"]]
    /\ UNCHANGED <<aggVars, launchVars, sweepVars, flt, restVars, win, man, inventory>>

\* remove_event_notification_if_exists, lines 275-307: the read, the single
\* write of the filtered entries when the trigger entry was among them, and
\* the except branch that logs every fault of either call and returns.
DiscRemoveNotification ==
    /\ disc.pc = "remove"
    /\ LET bucket_name == Head(disc.queue)
           current_config == notif[bucket_name]
           queue_configs == current_config.QueueConfigurations
           updated_configs == WithoutTrigger(queue_configs)
       IN \E get_fault \in BOOLEAN, answer \in {"ok", "conflict", "other"} :
            LET put == ~get_fault /\ Len(updated_configs) < Len(queue_configs)
            IN /\ notif' = IF put /\ answer = "ok"
                            THEN [notif EXCEPT ![bucket_name] =
                                    [current_config EXCEPT
                                        !.QueueConfigurations = updated_configs]]
                            ELSE notif
               /\ disc' = [DiscConfigured(disc) EXCEPT !.write =
                             IF put
                             THEN [path |-> "remove", answer |-> answer, attempt |-> 1,
                                   outcome |-> IF answer = "ok" THEN "succeeded"
                                               ELSE "returned"]
                             ELSE @]
    /\ UNCHANGED <<aggVars, launchVars, sweepVars, flt, restVars, win, man, inventory>>

\* Lines 439-451: the result.
DiscReturn ==
    /\ disc.pc = "container"
    /\ disc.queue = <<>>
    /\ disc' = [disc EXCEPT !.pc = "done"]
    /\ UNCHANGED <<aggVars, launchVars, sweepVars, flt, restVars, win, man, notif, inventory>>

\* The entry another writer of a container's notification configuration adds.
OtherWriterEntry == QueueEntry("external", "other-queue", <<ObjectRemovedAll>>)

\* Another writer (an operator, another program) adds its entry to the
\* configuration of the container the run is provisioning, after the run's
\* get_bucket_notification_configuration (line 193) and before its
\* put_bucket_notification_configuration (line 246) is applied.
OtherWriterPut ==
    /\ disc.pc = "put"
    /\ LET bucket_name == Head(disc.queue)
           queue_configs == notif[bucket_name].QueueConfigurations
       IN /\ \A n \in 1..Len(queue_configs) : queue_configs[n] # OtherWriterEntry
          /\ notif' = [notif EXCEPT ![bucket_name].QueueConfigurations =
                                       Append(@, OtherWriterEntry)]
    /\ UNCHANGED <<aggVars, launchVars, sweepVars, flt, restVars, win, man, inventory, disc>>

NextDisc ==
    \/ DiscStart
    \/ DiscInventory
    \/ DiscReadNotification
    \/ OtherWriterPut
    \/ DiscPutNotification
    \/ DiscRemoveNotification
    \/ DiscReturn

\* ========================================================================
\* Restore Resolver (restore_from_backup/lambda_function.py)
\* ========================================================================
\* An object key of the central container is the sequence of its path
\* components; the component "name=value" is the pair <<name, value>>, the
\* leading folder is <<"root", folder>>, a manifest file <<"file", f>> and
\* the key of a copied object <<"key", key>>.  Dates are records of numbers,
\* labels (%Y%m%dT%H%MZ) are <<day, hour, minute>>; their order is the order
\* of the zero-padded texts the code compares.
MaxObjects == 3

INITIATIVE == "backup"

ManifestsRoot(criticality, backup_type, source_bucket) ==
    << <<"root", "manifests">>, <<"criticality", criticality>>,
       <<"backup_type", backup_type>>, <<"initiative", INITIATIVE>>,
       <<"bucket", source_bucket>> >>

DataRoot(criticality, backup_type, generation, source_bucket) ==
    << <<"root", "backup">>, <<"criticality", criticality>>,
       <<"backup_type", backup_type>>, <<"generation", generation>>,
       <<"initiative", INITIATIVE>>, <<"bucket", source_bucket>> >>

DatePath(year, month, day, hour) ==
    << <<"year", year>>, <<"month", month>>, <<"day", day>>, <<"hour", hour>> >>

ManifestFile(label) == <<"file", [name |-> label, ext |-> "csv"]>>

\* _resolve_paths, lines 39-52.
_resolve_paths(source_bucket, criticality, backup_type, generation, year, month, day, hour) ==
    [manifests_prefix |-> ManifestsRoot(criticality, backup_type, source_bucket)
                            \o DatePath(year, month, day, hour),
     data_base_prefix |-> DataRoot(criticality, backup_type, generation, source_bucket)
                            \o DatePath(year, month, day, hour)]

Last(seq) == seq[Len(seq)]

\* The order of two texts made of zero-padded numbers.
TupleLess(a, b) ==
    \E i \in 1..Len(a) :
        /\ i <= Len(b)
        /\ \A j \in 1..(i - 1) : a[j] = b[j]
        /\ a[i] < b[i]

\* key.startswith(prefix) for a prefix that ends with "/".
IsUnder(key, prefix) == Len(key) >= Len(prefix) /\ SubSeq(key, 1, Len(prefix)) = prefix

\* list_objects_v2(Prefix=prefix, Delimiter="/"): the CommonPrefixes.
CommonPrefixes(objects, prefix) ==
    { SubSeq(k, 1, Len(prefix) + 1) :
        k \in { o \in objects : IsUnder(o, prefix) /\ Len(o) > Len(prefix) + 1 } }

\* _latest_timestamp_prefix, lines 19-36; <<>> stands for None.
_latest_timestamp_prefix(objects, base_prefix) ==
    LET stamps == { Last(cp)[2] : cp \in { c \in CommonPrefixes(objects, base_prefix) :
                                            Last(c)[1] = "timestamp" } }
    IN IF stamps = {} THEN <<>>
       ELSE LET latest_ts == CHOOSE t \in stamps : \A u \in stamps \ {t} : TupleLess(u, t)
            IN Append(base_prefix, <<"timestamp", latest_ts>>)

\* _find_latest_manifest, lines 55-64: the greatest key ending in .csv under
\* the prefix (the keys under one hour differ in the file name only).
_find_latest_manifest(objects, manif_prefix) ==
    LET csvs == { k \in objects : /\ IsUnder(k, manif_prefix)
                                  /\ Last(k)[1] = "file"
                                  /\ Last(k)[2].ext = "csv" }
    IN IF csvs = {} THEN <<>>
       ELSE CHOOSE k \in csvs :
              \A o \in csvs \ {k} : TupleLess(Last(o)[2].name, Last(k)[2].name)

\* Lines 138-150: the prefixes reached by listing CommonPrefixes four levels
\* deep (year, month, day, hour) below the root.
RECURSIVE HourPrefixes(_, _, _)
HourPrefixes(objects, prefix, depth) ==
    IF depth = 0 THEN {prefix}
    ELSE UNION { HourPrefixes(objects, cp, depth - 1) :
                    cp \in CommonPrefixes(objects, prefix) }

\* Lines 140-151: (y, m, d, h), the texts after "year=", "month=", "day=" and
\* "hour=" of the last four components.
Combo(prefix) == [i \in 1..4 |-> prefix[Len(prefix) - 4 + i][2]]

\* Lines 109-163: manifest key and data prefix, or the error raised.
ResolveBackup(objects, event) ==
    LET source_bucket == event.source_bucket
        criticality == Get(event, "criticality", "MenosCritico")
        backup_type == Get(event, "backup_type", "incremental")
        generation == Get(event, "generation", "son")
    IN IF {"year", "month", "day", "hour"} \subseteq DOMAIN event
       THEN LET paths == _resolve_paths(source_bucket, criticality, backup_type, generation,
                                        event.year, event.month, event.day, event.hour)
                manifest_key == _find_latest_manifest(objects, paths.manifests_prefix)
                data_prefix == _latest_timestamp_prefix(objects, paths.data_base_prefix)
            IN IF manifest_key = <<>> \/ data_prefix = <<>>
               THEN [error |-> "RuntimeError", manifest_key |-> <<>>, data_prefix |-> <<>>]
               ELSE [error |-> "", manifest_key |-> manifest_key, data_prefix |-> data_prefix]
       ELSE LET prefix_root == ManifestsRoot(criticality, backup_type, source_bucket)
                found == HourPrefixes(objects, prefix_root, 4)
            IN IF found = {}
               THEN [error |-> "RuntimeError", manifest_key |-> <<>>, data_prefix |-> <<>>]
               ELSE LET latest == CHOOSE p \in found :
                                    \A q \in found \ {p} : TupleLess(Combo(q), Combo(p))
                        c == Combo(latest)
                        manifest_key == _find_latest_manifest(objects, latest)
                        data_prefix == _latest_timestamp_prefix(objects,
                            DataRoot(criticality, backup_type, generation, source_bucket)
                                \o DatePath(c[1], c[2], c[3], c[4]))
                    IN IF manifest_key = <<>> \/ data_prefix = <<>>
                       THEN [error |-> "RuntimeError", manifest_key |-> <<>>,
                             data_prefix |-> <<>>]
                       ELSE [error |-> "", manifest_key |-> manifest_key,
                             data_prefix |-> data_prefix]

\* ------------------------------------------------------------------------
\* What the backups leave in the central container.
\* ------------------------------------------------------------------------
\* The store's listing of a key in an enumeration report: URL-encoded (on
\* the model's alphabet, a space becomes '+').
quote_plus(s) == [i \in 1..Len(s) |-> IF s[i] = " " THEN "+" ELSE s[i]]

\* The batch-copy job: every row's key is URL-decoded and the object copied
\* to <data prefix>/<key>.
BatchCopied(rows, data_prefix) ==
    [k \in { Append(data_prefix, <<"key", unquote_plus(rows[n][2])>>) : n \in 1..Len(rows) }
        |-> <<"data">>]

\* filter_inventory lines 196-218: the rows of a sweep over an enumeration
\* report of the keys.
InventoryRows(source_bucket, keys) ==
    [n \in 1..Len(keys) |-> <<source_bucket, quote_plus(keys[n])>>]

\* launch_batch_job lines 133-159: manifest-<label>.csv under the hour of
\* the launch and the data under timestamp=<label> of the same hour.
LauncherManifestKey(criticality, backup_type, source_bucket, hour, label) ==
    Append(ManifestsRoot(criticality, backup_type, source_bucket)
              \o DatePath(2025, 10, 20, hour), ManifestFile(label))

LauncherDataPrefix(criticality, backup_type, generation, source_bucket, hour, label) ==
    Append(DataRoot(criticality, backup_type, generation, source_bucket)
              \o DatePath(2025, 10, 20, hour), <<"timestamp", label>>)

LauncherBackup(criticality, backup_type, generation, source_bucket, hour, label, rows) ==
    (LauncherManifestKey(criticality, backup_type, source_bucket, hour, label) :> rows)
    @@ BatchCopied(rows, LauncherDataPrefix(criticality, backup_type, generation,
                                            source_bucket, hour, label))

\* incremental_backup lines 214-227 and 299-307: manifest-<run_id>.csv under
\* window=<label> and the data under window=<label> of the window's hour.
AggregatorBackup(criticality, source_bucket, window_start, run_id, object_keys) ==
    LET window_label == window_label_of(window_start)
        rows == ManifestBody(source_bucket, object_keys).rows
        manifest_key == ManifestsRoot(criticality, "incremental", source_bucket)
                           \o << <<"window", window_label>>, ManifestFile(run_id) >>
        data_prefix == Append(DataRoot(criticality, "incremental", "son", source_bucket)
                                \o DatePath(2025, 10, window_start.day, window_start.hour),
                              <<"window", window_label>>)
    IN (manifest_key :> rows) @@ BatchCopied(rows, data_prefix)

\* The snapshot of the source container that the full sweep enumerated.
Snapshot == << <<"a">>, <<"a", " ", "b">>, <<"b">> >>

PlainKeys == << <<"a">>, <<"b">> >>

ByAggregator ==
    AggregatorBackup("Critico", "b1", datetime(20, 12, 0, 0, 0, 0), <<20, 12, 30>>,
                     {<<"a">>, <<"b">>})

BySweepSon ==
    LauncherBackup("Critico", "incremental", "son", "b1", 12, <<20, 12, 0>>,
                   InventoryRows("b1", PlainKeys))

BySweepFull ==
    LauncherBackup("Critico", "full", "father", "b1", 12, <<20, 12, 0>>,
                   InventoryRows("b1", Snapshot))

\* Two backups of different hours, the later one of another container's rows.
BySweepTwice ==
    BySweepSon @@ LauncherBackup("Critico", "incremental", "son", "b1", 13, <<20, 13, 0>>,
                                 <<<<"b2", <<"a">>>>, <<"b1", <<"b">>>>, <<"b1", <<"a">>>>>>)

\* Two full backups launched within one hour, of the generations father and
\* grandfather, the later one after the source container had lost two objects.
BySweepGenerations ==
    BySweepFull @@ LauncherBackup("Critico", "full", "grandfather", "b1", 12, <<20, 12, 1>>,
                                  InventoryRows("b1", << <<"b">> >>))

\* The store states the Launcher alone produced.
LauncherWorlds == { BySweepSon, BySweepFull, BySweepTwice, BySweepGenerations }

RestoreWorlds == { <<>>, ByAggregator } \cup LauncherWorlds

RestoreEvents ==
    { base @@ given @@ pfx @@ cap @@ dry :
        base \in { [source_bucket |-> "b1", criticality |-> "Critico"],
                   [source_bucket |-> "b1", criticality |-> "Critico",
                    backup_type |-> "full", generation |-> "father"] },
        given \in { <<>>, [year |-> 2025, month |-> 10, day |-> 20, hour |-> 12] },
        pfx \in { <<>>, [prefix |-> <<"a">>] },
        cap \in { <<>> } \cup { [max_objects |-> n] : n \in 1..MaxObjects },
        dry \in { <<>>, [dry_run |-> TRUE], [dry_run |-> FALSE] } }

IdleRestore ==
    [pc |-> "idle", event |-> <<>>, manifest_key |-> <<>>, data_prefix |-> <<>>,
     rows |-> <<>>, restored |-> 0, skipped |-> 0, errors |-> 0, copies |-> <<>>,
     before |-> {}, result |-> <<>>]

InitRestoreIdle ==
    /\ rcentral = <<>>
    /\ rsource = {}
    /\ res = IdleRestore

InitRestore ==
    /\ rcentral \in RestoreWorlds
    /\ rsource \in { {}, {<<"a">>} }
    /\ res = IdleRestore

\* Lines 98-166: the parameters and the backup to restore from; `before`
\* remembers the source container as the invocation found it.
RestoreStart ==
    /\ res.pc = "idle"
    /\ \E event \in RestoreEvents :
         LET found == ResolveBackup(DOMAIN rcentral, event)
         IN res' = IF found.error # ""
                   THEN [IdleRestore EXCEPT !.pc = "raised", !.event = event,
                                            !.before = rsource]
                   ELSE [IdleRestore EXCEPT !.pc = "rows", !.event = event,
                             !.manifest_key = found.manifest_key,
                             !.data_prefix = found.data_prefix,
                             !.rows = rcentral[found.manifest_key],
                             !.before = rsource]
    /\ UNCHANGED <<aggVars, launchVars, sweepVars, flt, win, man, discVars, rcentral, rsource>>

\* Line 103.
max_objects_of(event) == Get(event, "max_objects", 10000)

dry_run_of_DefaultFalse(event) == Get(event, "dry_run", FALSE)

\* Line 104.
dry_run_of(event) == Get(event, "dry_run", TRUE)

CapReached_Exceeded(restored, max_objects) == restored > max_objects

\* Lines 185 and 201.
CapReached(restored, max_objects) == restored >= max_objects

\* Lines 172-202: one row of the manifest.
RestoreRow ==
    /\ res.pc = "rows"
    /\ res.rows # <<>>
    /\ LET bkt == Head(res.rows)[1]
           key == Head(res.rows)[2]
           prefix_filter == Get(res.event, "prefix", <<>>)
           src_key == Append(res.data_prefix, <<"key", key>>)
           dst_key == key
           next == [res EXCEPT !.rows = Tail(@)]
           Break(r) == IF CapReached(r.restored, max_objects_of(res.event))
                       THEN [r EXCEPT !.pc = "return"] ELSE r
       IN IF bkt # res.event.source_bucket
             \/ (prefix_filter # <<>> /\ ~StartsWith(key, prefix_filter))
          THEN /\ res' = [next EXCEPT !.skipped = @ + 1]
               /\ UNCHANGED rsource
          ELSE IF dry_run_of(res.event)
          THEN /\ res' = Break([next EXCEPT !.restored = @ + 1])
               /\ UNCHANGED rsource
          ELSE \E fault \in BOOLEAN :
                 LET copied == ~fault /\ src_key \in DOMAIN rcentral
                     issued == [next EXCEPT !.copies =
                                  Append(@, [src |-> src_key, dst |-> dst_key,
                                             row |-> Head(res.rows),
                                             restored |-> res.restored,
                                             fault |-> fault])]
                 IN /\ rsource' = IF copied THEN rsource \cup {dst_key} ELSE rsource
                    /\ res' = Break(IF copied THEN [issued EXCEPT !.restored = @ + 1]
                                    ELSE [issued EXCEPT !.errors = @ + 1])
    /\ UNCHANGED <<aggVars, launchVars, sweepVars, flt, win, man, discVars, rcentral>>

\* Lines 204-219: the result.
RestoreReturn ==
    /\ res.pc = "return" \/ (res.pc = "rows" /\ res.rows = <<>>)
    /\ res' = [res EXCEPT !.pc = "done", !.result =
                 [status |-> IF dry_run_of(res.event) THEN "DRY_RUN" ELSE "RESTORE_COMPLETED",
                  manifest_key |-> res.manifest_key,
                  data_prefix |-> res.data_prefix,
                  restored_count |-> res.restored,
                  skipped |-> res.skipped,
                  errors |-> res.errors,
                  max_objects |-> max_objects_of(res.event)]]
    /\ UNCHANGED <<aggVars, launchVars, sweepVars, flt, win, man, discVars, rcentral, rsource>>

NextRestore == RestoreStart \/ RestoreRow \/ RestoreReturn

\* ------------------------------------------------------------------------
\* within_allowed_prefixes applied to one key under one set of settings.
\* ------------------------------------------------------------------------
MaxKeyLen == 5

RECURSIVE KeysOfLen(_)
KeysOfLen(n) ==
    IF n = 0 THEN {<<>>}
    ELSE { Append(k, c) : k \in KeysOfLen(n - 1), c \in {"t", "x", "/", "~"} }

FilterKeys == UNION { KeysOfLen(n) : n \in 1..MaxKeyLen }

FilterSettings ==
    [ex_prefixes : { {}, {<<"t">>}, {<<"t", "/">>} },
     ex_suffixes : { {}, {<<"~">>} },
     prefixes : { {}, {<<"x">>} }]

NoFilter == [pc |-> "idle"]

InitFilter == flt \in { [pc |-> "call", settings |-> c, object_key |-> k] :
                          c \in FilterSettings, k \in FilterKeys }

FilterKey ==
    /\ flt.pc = "call"
    /\ flt' = [pc |-> "returned", settings |-> flt.settings, object_key |-> flt.object_key,
               retained |-> object_filter(flt.settings.ex_prefixes, flt.settings.ex_suffixes,
                                          flt.settings.prefixes, flt.object_key)]
    /\ UNCHANGED <<aggVars, launchVars, sweepVars, win, man, discVars, restVars>>

\* ------------------------------------------------------------------------
\* compute_window_start applied to one event time and one window length.
\* ------------------------------------------------------------------------
EventTimes ==
    { datetime(20, h, m, sec, us, off) :
        h \in 0..23, m \in {0, 59}, sec \in {0, 59}, us \in {0, 999999}, off \in {0, 2} }

FreqHours == 1..24

NoWindow == [pc |-> "idle"]

InitWindow ==
    win \in [pc : {"call"}, event_time : EventTimes, freq_hours : FreqHours]

WindowStart ==
    /\ win.pc = "call"
    /\ win' = [pc |-> "returned", event_time |-> win.event_time,
               freq_hours |-> win.freq_hours,
               window_start |-> compute_window_start(win.event_time, win.freq_hours)]
    /\ UNCHANGED <<aggVars, launchVars, sweepVars, flt, restVars, man, discVars>>

\* ------------------------------------------------------------------------
\* The rows upload_manifest writes for the group of a batch of events, all
\* of bucket b1 (tier Critico) and of one window.
\* ------------------------------------------------------------------------
MaxBatch == 3

EventKeys == { <<"b">>, <<"a">>, <<"a", "+">>, <<"a", " ">> }

EventBatches == UNION { [1..n -> EventKeys] : n \in 1..MaxBatch }

NoRows == [pc |-> "idle"]

InitRows == man \in [pc : {"call"}, batch : EventBatches]

ManifestRows ==
    /\ man.pc = "call"
    /\ LET records == [n \in 1..Len(man.batch) |->
                         Msg("m1", "dict", <<Rec("b1", man.batch[n], 13)>>)]
           acc == ProcessBatch(EmptyAcc, records, 1, {})
           group_key == acc.order[1]
       IN man' = [pc |-> "returned", batch |-> man.batch,
                  rows |-> ManifestBody(group_key.bucket, acc.objs[group_key]).rows]
    /\ UNCHANGED <<aggVars, launchVars, sweepVars, flt, restVars, win, discVars>>

InitOther ==
    win = NoWindow /\ man = NoRows /\ flt = NoFilter /\ InitDiscIdle /\ InitRestoreIdle

Init == InitAgg /\ InitLaunch /\ InitSweepIdle /\ InitOther

InitDeployed == InitAgg /\ InitLaunch /\ InitSweep /\ InitOther

InitApplied ==
    /\ InitAgg /\ InitLaunch /\ InitSweepIdle /\ flt = NoFilter
    /\ InitWindow /\ man = NoRows
    /\ InitDiscIdle /\ InitRestoreIdle

InitBatch ==
    /\ InitAgg /\ InitLaunch /\ InitSweepIdle /\ flt = NoFilter
    /\ win = NoWindow /\ InitRows
    /\ InitDiscIdle /\ InitRestoreIdle

InitDiscovery ==
    /\ InitAgg /\ InitLaunch /\ InitSweepIdle /\ flt = NoFilter
    /\ win = NoWindow /\ man = NoRows
    /\ InitDisc /\ InitRestoreIdle

InitRestoring ==
    /\ InitAgg /\ InitLaunch /\ InitSweepIdle /\ flt = NoFilter
    /\ win = NoWindow /\ man = NoRows
    /\ InitDiscIdle /\ InitRestore

InitFiltering ==
    /\ InitAgg /\ InitLaunch /\ InitSweepIdle /\ win = NoWindow /\ man = NoRows
    /\ InitDiscIdle /\ InitRestoreIdle /\ InitFilter

SpecAgg == Init /\ [][NextAgg]_vars

SpecLaunch == Init /\ [][NextLaunch]_vars

SpecSweep == InitDeployed /\ [][NextSweep]_vars

SpecWindow == InitApplied /\ [][WindowStart]_vars

SpecRows == InitBatch /\ [][ManifestRows]_vars

SpecDisc == InitDiscovery /\ [][NextDisc]_vars

SpecRestore == InitRestoring /\ [][NextRestore]_vars

SpecFilter == InitFiltering /\ [][FilterKey]_vars

\* ========================================================================
\* Properties of the Incremental Aggregator
\* ========================================================================
Done(i) == agg[i].pc = "done"

Range(f) == {f[x] : x \in DOMAIN f}

ResultOf(i, g) == IF g \in DOMAIN agg[i].result THEN agg[i].result[g] ELSE "none"

\* Whether a manifest key belongs to a group.
KeyOfGroup(k, g) == \E r \in 0..MaxClock : k = ManifestKey(g, r)

\* C1: at most one batch-copy job is ever created for a (tier, source, window).
C1_AtMostOneJobPerWindow ==
    \A j1, j2 \in jobs : j1.group = j2.group => j1 = j2

\* C2: a run over the batch of an earlier run that returned no failures
\* writes no manifest, creates no job and returns no failures.  Only replays
\* that meet no store fault themselves are considered.
C2_ReplayIdempotent ==
    \A i, j \in Invocations :
        ( /\ i # j /\ Done(i) /\ Done(j)
          /\ i \in doneBefore[j]
          /\ agg[j].batch = agg[i].batch
          /\ agg[i].response = {}
          /\ ~agg[j].faulted )
        => /\ ~ \E p \in puts : p.inv = j
           /\ ~ \E c \in calls : c.inv = j /\ c.answer = "created"
           /\ agg[j].response = {}

\* C3: a window marker exists only if a manifest of the group is stored and
\* a job for it was created from that manifest; and an invocation writes a
\* marker only for a group whose job it submitted, never for a failed one.
C3_NoPartialCommit ==
    /\ \A g \in markers :
          \E j \in jobs : /\ j.group = g
                          /\ j.manifest \in DOMAIN manifests
                          /\ KeyOfGroup(j.manifest, g)
    /\ \A m \in marked : ResultOf(m.inv, m.group) = "submitted"

\* A marker is in the store while some invocation has a failed group.
C3_Witness ==
    /\ markers # {}
    /\ \E i \in Invocations : \E g \in DOMAIN agg[i].result : agg[i].result[g] = "failed"

\* C4: the groups a message contributes a key to, read off the batch alone:
\* record k is a well-formed record of a tier with a window that passes the
\* object filter, and no record before it is unreadable.
RecordGroup(r) ==
    LET criticality == get_bucket_criticality(r.bucket)
    IN [criticality |-> criticality, bucket |-> r.bucket,
        window |-> window_label_of(compute_window_start(r.eventTime,
                                       get_frequency_hours(criticality)))]

Contributes(m, g) ==
    /\ m.body = "dict"
    /\ \E k \in 1..Len(m.Records) :
         LET r == m.Records[k]
         IN /\ r.kind = "ok"
            /\ \A q \in 1..(k - 1) : m.Records[q].kind # "noEventTime"
            /\ get_frequency_hours(get_bucket_criticality(r.bucket)) > 0
            /\ within_allowed_prefixes(get_bucket_criticality(r.bucket), unquote_plus(r.key))
            /\ RecordGroup(r) = g

FailedGroups(i) == {g \in DOMAIN agg[i].result : agg[i].result[g] = "failed"}

ExpectedFailures(i) ==
    {m.messageId : m \in {x \in Range(agg[i].batch) :
        \/ x.body = "notjson"
        \/ x.messageId \in agg[i].raised
        \/ \E g \in FailedGroups(i) : Contributes(x, g)}}

\* C4: the response names exactly the undecodable messages, the messages
\* whose records raised, and the messages that contributed to a failed group.
C4_PartialFailureFaithful ==
    \A i \in Invocations :
        (Done(i) /\ \A m \in Range(agg[i].batch) : m.messageId # "")
        => agg[i].response = ExpectedFailures(i)

\* A finished invocation with a failed group and a submitted group, whose
\* response names some but not all of its messages.
C4_Witness ==
    \E i \in Invocations :
        /\ Done(i)
        /\ \E g \in DOMAIN agg[i].result : agg[i].result[g] = "failed"
        /\ \E g \in DOMAIN agg[i].result : agg[i].result[g] = "submitted"
        /\ agg[i].response # {}

\* C5: any two create_job calls for the same (source, tier, window) carry
\* the same client token.
C5_TokenDeterministic ==
    \A c1, c2 \in calls : c1.group = c2.group => c1.token = c2.token

\* Per invocation and group there are at most two create_job calls; the
\* second follows a first that failed with a tag mismatch; a failed second
\* call, or a first call that failed otherwise, ends the group as failed.
C9_State ==
    \A c \in calls :
        /\ c.n <= 2
        /\ c.n = 2 => \E c1 \in calls : /\ c1.inv = c.inv /\ c1.group = c.group
                                        /\ c1.n = 1 /\ c1.answer = "ETag"
        /\ (c.n = 2 /\ c.answer \in {"ETag", "other"})
              => ResultOf(c.inv, c.group) = "failed"
        /\ (c.n = 1 /\ c.answer = "other")
              => /\ ResultOf(c.inv, c.group) = "failed"
                 /\ ~ \E c2 \in calls : c2.inv = c.inv /\ c2.group = c.group /\ c2.n = 2

\* The tag carried into the retry is the one the metadata read returned.
C9_FreshTag ==
    \A i \in Invocations :
        (agg[i].pc = "retryHead" /\ agg'[i].pc = "retryCreate")
        => agg'[i].etag = manifests[ManifestKey(CurGroup(i), agg[i].run_id)]

\* C9: within an invocation a tag mismatch of the first create_job is retried
\* exactly once, with the tag just read from the manifest's metadata; no
\* group sees more than two create_job calls; a failed retry, or a first
\* error that is not a tag mismatch, fails the group without another call.
C9_TagMismatchRetriedOnce == [][C9_State' /\ C9_FreshTag]_vars

\* A retry was made and failed, and the group ended as failed.
C9_Witness ==
    \E c \in calls : c.n = 2 /\ c.answer \in {"ETag", "other"}

\* ========================================================================
\* Properties of the Batch-Copy Launcher
\* ========================================================================
\* C6: a retry with the same event, begun after an invocation that returned
\* JOB_CREATED and meeting no store fault itself, creates no second job and
\* returns the job id of the first invocation.
C6_RetryReturnsFirstJob ==
    \A i \in 1..Len(lruns), j \in 1..Len(lruns) :
        ( /\ i < j
          /\ lruns[j].began >= i
          /\ lruns[j].event = lruns[i].event
          /\ lruns[i].status = "JOB_CREATED"
          /\ ~lruns[j].faulted )
        => ( /\ lruns[j].status = "JOB_CREATED"
             /\ lruns[j].jobId = lruns[i].jobId
             /\ ~lruns[j].created )

\* C7: in every reachable state each manifest exists at its temporary key
\* or at a canonical key.
C7_ManifestNeverLost ==
    \A n \in TempManifests :
        \/ TempKey(n) \in DOMAIN lobjects
        \/ \E k \in DOMAIN lobjects : k[1] = "manifests"

\* C8: an invocation whose create_job was rejected for the integrity tag
\* made exactly one more create_job call.
C8_MismatchRetriedOnce ==
    \A i \in 1..Len(lruns) : lruns[i].mismatch => lruns[i].ncreate = 2

\* ========================================================================
\* Properties of the Sweep Planner
\* ========================================================================
\* C10: when an invocation has ended, no multipart upload is left pending.
C10_UploadsClosed ==
    sw.pc = "idle" => \A u \in DOMAIN uploads : uploads[u] # "pending"

\* C11: the effective mode of an invocation is full exactly when the
\* requested mode is full, or when no descriptor exists, the escalation is
\* enabled, the mode is incremental and no sweep checkpoint exists.
C11_EscalationRule ==
    \A i \in 1..Len(sruns) :
        LET r == sruns[i]
        IN r.effective # "" =>
             ( r.effective = "full" <=>
                 \/ r.event.backup_type = "full"
                 \/ /\ "none" \in DOMAIN r.world.descriptor
                    /\ sconf.FORCE_FULL_ON_FIRST_RUN
                    /\ r.event.backup_type = "incremental"
                    /\ ~r.cp_exists )

\* C12: the timestamp stored under a sweep checkpoint key never decreases,
\* and a stored checkpoint is never removed.
C12_CheckpointMonotonic ==
    [][\A k \in DOMAIN checkpoints :
          k \in DOMAIN checkpoints' /\ checkpoints'[k] >= checkpoints[k]]_vars

\* Two successful invocations of one (source, mode) wrote the checkpoint,
\* the later one a later time.
C12_Witness ==
    \E i \in 1..Len(sruns), j \in 1..Len(sruns) :
        /\ i < j
        /\ sruns[i].status = "SUCCESS" /\ sruns[j].status = "SUCCESS"
        /\ sruns[i].event.backup_type = sruns[j].event.backup_type
        /\ sruns[i].effective = sruns[j].effective
        /\ sruns[i].cp_time # None /\ sruns[j].cp_time # None
        /\ sruns[j].cp_time > sruns[i].cp_time

\* C13: with FALLBACK_MAX_OBJECTS = N > 0 the manifest written by the
\* direct-listing fallback has at most N rows.
C13_FallbackObjectCap ==
    \A i \in 1..Len(sruns) :
        ( /\ sruns[i].status = "SUCCESS"
          /\ ~sruns[i].manifest_key
          /\ sconf.FALLBACK_MAX_OBJECTS > 0 )
        => Len(sruns[i].rows) <= sconf.FALLBACK_MAX_OBJECTS

\* A key equal to an exclude-prefix p, of the form p/... or .../p/...
UnderExcludePrefix(key) ==
    \E p \in EXCLUDE_KEY_PREFIXES :
        \/ key = p
        \/ StartsWith(key, p \o <<"/">>)
        \/ Contains(key, <<"/">> \o p \o <<"/">>)

\* C14: no manifest written by the Aggregator or by the Sweep Planner holds
\* a key under an exclude-prefix.
C14_ExclusionFilter ==
    /\ \A k \in DOMAIN manifests : \A n \in 1..Len(manifests[k].rows) :
            ~UnderExcludePrefix(manifests[k].rows[n][2])
    /\ \A k \in DOMAIN sobjects :
          \A n \in 1..Len(sobjects[k]) : ~UnderExcludePrefix(sobjects[k][n][2])

\* C15: at most one manifest object exists under the manifest prefix of a
\* (tier, source, window).
C15_OneManifestPerWindow ==
    \A k1, k2 \in DOMAIN manifests :
        (k1[2] = k2[2] /\ k1[4] = k2[4] /\ k1[5] = k2[5]) => k1 = k2

\* The instant of a reading: seconds since day 0, 00:00 UTC, and microseconds.
Instant(t) ==
    <<((t.day * 24 + t.hour - t.utcoffset) * 60 + t.minute) * 60 + t.second,
      t.microsecond>>

Earlier(a, b) == a[1] < b[1] \/ (a[1] = b[1] /\ a[2] < b[2])

\* C16: the window start of an event time has an hour that is a multiple of
\* the window length, minute, second and microsecond zero, the UTC date of the
\* event time, and lies at most one window length (exclusive) before it.
C16_WindowQuantization ==
    win.pc = "returned" =>
        LET start == win.window_start
            h == win.freq_hours
        IN /\ start.hour % h = 0
           /\ start.minute = 0 /\ start.second = 0 /\ start.microsecond = 0
           /\ astimezone_utc(start).day = astimezone_utc(win.event_time).day
           /\ ~Earlier(Instant(win.event_time), Instant(start))
           /\ Earlier(Instant(win.event_time),
                      <<Instant(start)[1] + h * 3600, Instant(start)[2]>>)

\* C17: the rows written for a group are the keys of the group's events, each
\* exactly once, in ascending lexicographic order, whatever the order of the
\* events in the batch and however often an event is repeated; so two batches
\* with the same set of keys yield the same rows.
C17_ManifestDeterministic ==
    man.pc = "returned" =>
        LET keys == { unquote_plus(man.batch[n]) : n \in 1..Len(man.batch) }
        IN /\ { man.rows[n][2] : n \in 1..Len(man.rows) } = keys
           /\ \A n \in 1..Len(man.rows) : man.rows[n][1] = "b1"
           /\ \A n \in 1..(Len(man.rows) - 1) : LexLess(man.rows[n][2], man.rows[n + 1][2])

\* A batch that lists a later key before an earlier one and an event twice.
C17_Witness ==
    /\ man.pc = "returned"
    /\ \E m, n \in 1..Len(man.batch) :
          m < n /\ LexLess(unquote_plus(man.batch[n]), unquote_plus(man.batch[m]))
    /\ \E m, n \in 1..Len(man.batch) : m < n /\ man.batch[m] = man.batch[n]
    /\ Len(man.rows) = 2

\* The steps of a started invocation.
AggStep(i) ==
    \/ AggCheckMarker(i) \/ AggPutManifest(i) \/ AggHeadManifest(i)
    \/ AggCreateJob(i) \/ AggRetryHead(i) \/ AggRetryCreate(i)
    \/ AggWriteMarker(i) \/ AggReturn(i)

MessageIds(batch) == { batch[n].messageId : n \in 1..Len(batch) }

\* C18: the Aggregator never raises: whatever the batch (undecodable bodies,
\* records lacking fields, tag-lookup faults) and whatever faults the marker
\* read, the manifest upload, the job submission and the marker write, an
\* invocation that has not returned has a next step, none of its steps leaves
\* the handler by an exception, and what it returns is a list of identifiers
\* of messages of its batch.
C18_NeverRaises ==
    \A i \in Invocations :
        /\ agg[i].pc # "raised"
        /\ agg[i].pc \notin {"idle", "done"} => ENABLED AggStep(i)
        /\ agg[i].pc = "done" => agg[i].response \subseteq MessageIds(agg[i].batch)

\* An invocation returned although a message of its batch could not be
\* processed, a store call faulted and a group failed.
C18_Witness ==
    \E i \in Invocations :
        /\ agg[i].pc = "done"
        /\ agg[i].raised # {}
        /\ agg[i].faulted
        /\ \E g \in DOMAIN agg[i].result : agg[i].result[g] = "failed"

\* ========================================================================
\* Properties of the Discovery Reconciler
\* ========================================================================
Reported(c) == \E n \in 1..Len(disc.Buckets) : disc.Buckets[n].source_bucket = c

TriggerEntries(c) ==
    SelectSeq(notif[c].QueueConfigurations, LAMBDA q : q.Id = notification_id)

\* C19: a container of a tier that requires notifications, once the run has
\* provisioned it, has exactly one entry with the trigger identifier, for the
\* configured queue and for object-created events.
C19_OneTriggerEntry ==
    \A c \in Range(DiscContainers) :
        (ContainerTier[c] \in CRITICALITIES_WITH_NOTIFICATIONS /\ Reported(c)) =>
            /\ Len(TriggerEntries(c)) = 1
            /\ TriggerEntries(c)[1].QueueArn = sqs_queue_arn
            /\ _is_object_created(TriggerEntries(c)[1])

\* C20: a container of a tier that requires no notifications, once the run
\* reports it as configured, has no entry with the trigger identifier, and
\* its other entries are those it had before the run.
C20_TriggerRemoved ==
    \A c \in Range(DiscContainers) :
        (ContainerTier[c] \notin CRITICALITIES_WITH_NOTIFICATIONS /\ Reported(c)) =>
            /\ Len(TriggerEntries(c)) = 0
            /\ notif[c] = [disc.before[c] EXCEPT
                            !.QueueConfigurations = WithoutTrigger(@)]

\* C21: every write of a notification configuration, by the provisioning and
\* by the removal of the trigger entry, is retried on a conflict while fewer
\* than 7 attempts were made, succeeds when an attempt succeeds, fails after
\* the 7th conflict and fails at once on any other error.
C21_WriteRetriedOnConflict ==
    LET w == disc.write
    IN w.path # "none" =>
         /\ w.attempt <= notification_max_attempts
         /\ w.answer = "ok" => w.outcome = "succeeded"
         /\ (w.answer = "conflict" /\ w.attempt < notification_max_attempts)
                => w.outcome = "retry"
         /\ (w.answer = "conflict" /\ w.attempt = notification_max_attempts)
                => w.outcome = "failed"
         /\ w.answer = "other" => w.outcome = "failed"

\* The enumeration configuration of c was reconciled in the current run.
InventoryReconciled(c) ==
    \/ Reported(c)
    \/ disc.pc \in {"ensure", "put", "remove"} /\ Head(disc.queue) = c

\* C22: after a successful reconcile of a container its enumeration
\* configuration has the frequency configured for its tier, whatever it was
\* before; and no write is issued for a container whose configuration already
\* had that frequency when the run began.
C22_InventoryConverges ==
    \A c \in DOMAIN ContainerTier :
        LET frequency == INVENTORY_FREQUENCIES[ContainerTier[c]]
        IN /\ InventoryReconciled(c) => inventory[c].Frequency = frequency
           /\ (c \in DOMAIN disc.inv_before /\ disc.inv_before[c].Frequency = frequency)
                 => c \notin disc.inv_writes

\* A run that reconciled a container with another frequency, one without a
\* configuration or one that already had the target frequency.
C22_Witness ==
    /\ Reported("c1") /\ Reported("c2")
    /\ disc.inv_before["c1"].Frequency = "Daily" /\ "c1" \in disc.inv_writes
    /\ disc.inv_before["c2"].Frequency = "Weekly" /\ "c2" \notin disc.inv_writes

\* The steps of a run after the tag scan.
DiscStep ==
    \/ DiscInventory \/ DiscReadNotification \/ DiscPutNotification
    \/ DiscRemoveNotification \/ DiscReturn

Occurrences(seq, c) == Cardinality({ n \in 1..Len(seq) : seq[n] = c })

ReportedTimes(c) ==
    Cardinality({ n \in 1..Len(disc.Buckets) : disc.Buckets[n].source_bucket = c })

\* C23: once the tag scan has succeeded the run never aborts: it always has
\* a next step until it returns, no container is in both lists of the result,
\* and the result it returns holds every discovered container exactly once,
\* in the configured list or in the error list, whatever faulted before.
C23_ErrorIsolation ==
    /\ disc.pc \in {"container", "ensure", "put", "remove"} => ENABLED DiscStep
    /\ disc.pc = "raised" => (disc.Buckets = <<>> /\ disc.Errors = <<>>)
    /\ \A c \in DOMAIN ContainerTier :
          /\ ReportedTimes(c) + Occurrences(disc.Errors, c) <= 1
          /\ disc.pc = "done" => ReportedTimes(c) + Occurrences(disc.Errors, c) = 1

\* A run returned with the first container in the error list and the second
\* one configured.
C23_Witness ==
    /\ disc.pc = "done"
    /\ Occurrences(disc.Errors, "c1") = 1
    /\ Reported("c2")

\* ------------------------------------------------------------------------
\* Restore Resolver
\* ------------------------------------------------------------------------
RestoreOver == res.pc \in {"raised", "done"}

DatesGiven(event) == {"year", "month", "day", "hour"} \subseteq DOMAIN event

LatestDryRun ==
    /\ RestoreOver
    /\ ~DatesGiven(res.event)
    /\ dry_run_of(res.event)
    /\ "prefix" \notin DOMAIN res.event
    /\ Get(res.event, "backup_type", "incremental") = "incremental"
    /\ Get(res.event, "generation", "son") = "son"

\* C24: a dry-run restore without date parameters of a source that has an
\* incremental/son backup, whether the Incremental Aggregator or the Sweep
\* Planner with the Launcher produced it, returns DRY_RUN with a manifest
\* key, a data prefix and a positive restored_count.
C24_RestoreLatest ==
    (LatestDryRun /\ rcentral \in {ByAggregator, BySweepSon, BySweepTwice}) =>
        /\ res.pc = "done"
        /\ res.result.status = "DRY_RUN"
        /\ res.result.manifest_key # <<>>
        /\ res.result.data_prefix # <<>>
        /\ res.result.restored_count > 0

NoCopyFault == \A n \in 1..Len(res.copies) : ~res.copies[n].fault

\* C25: after a full sweep over the snapshot S0 whose manifest M the Launcher
\* submitted and whose rows the job copied under D, a restore with
\* dry_run=false and max_objects >= |S0| resolves M and D, issues for every
\* key k of S0 a copy from central:<D>/<k> to source:<k>, and the source
\* container holds exactly the keys of S0 again.
C25_RestoreRoundTrip ==
    LET M == LauncherManifestKey("Critico", "full", "b1", 12, <<20, 12, 0>>)
        D == LauncherDataPrefix("Critico", "full", "father", "b1", 12, <<20, 12, 0>>)
        S0 == { Snapshot[n] : n \in 1..Len(Snapshot) }
    IN (/\ res.pc = "done"
        /\ rcentral = BySweepFull
        /\ Get(res.event, "backup_type", "incremental") = "full"
        /\ Get(res.event, "generation", "son") = "father"
        /\ ~dry_run_of(res.event)
        /\ "prefix" \notin DOMAIN res.event
        /\ max_objects_of(res.event) >= Len(Snapshot)
        /\ NoCopyFault)
       => /\ res.manifest_key = M
          /\ res.data_prefix = D
          /\ \A k \in S0 : \E n \in 1..Len(res.copies) :
                /\ res.copies[n].src = Append(D, <<"key", k>>)
                /\ res.copies[n].dst = k
          /\ rsource = S0

RowMatches(row, event) ==
    /\ row[1] = event.source_bucket
    /\ "prefix" \in DOMAIN event => StartsWith(row[2], event.prefix)

\* C26: restored_count never exceeds max_objects, no copy is issued once
\* restored_count has reached max_objects, and a copy is issued only for a
\* manifest row of the requested container whose key starts with the optional
\* prefix, to the destination key equal to the row's key.
C26_RestoreCap ==
    res.pc # "idle" =>
        /\ res.restored <= max_objects_of(res.event)
        /\ \A n \in 1..Len(res.copies) :
              /\ res.copies[n].restored < max_objects_of(res.event)
              /\ RowMatches(res.copies[n].row, res.event)
              /\ res.copies[n].dst = res.copies[n].row[2]
        /\ res.pc = "done" => res.result.restored_count <= res.result.max_objects

C26_Witness ==
    /\ res.pc = "done"
    /\ res.copies # <<>>
    /\ res.result.restored_count = res.result.max_objects
    /\ res.rows # <<>>
    /\ res.skipped > 0

DryRunRequested(event) == "dry_run" \notin DOMAIN event \/ event.dry_run

Matching(rows, event) == Cardinality({ n \in 1..Len(rows) : RowMatches(rows[n], event) })

\* C27: a restore with dry_run=true, or without dry_run, issues no copy and
\* leaves the source container and the central container unchanged; it counts
\* the matching manifest rows (up to max_objects) and returns DRY_RUN.
C27_DryRunCopiesNothing ==
    [][ (res'.pc # "idle" /\ DryRunRequested(res'.event)) =>
            /\ res'.copies = <<>>
            /\ rsource' = rsource
            /\ rcentral' = rcentral
            /\ res'.pc = "done" =>
                 /\ res'.result.status = "DRY_RUN"
                 /\ LET all == Matching(rcentral[res'.manifest_key], res'.event)
                        cap == res'.result.max_objects
                    IN res'.result.restored_count = IF all < cap THEN all ELSE cap ]_vars

C27_Witness ==
    /\ res.pc = "done"
    /\ "dry_run" \notin DOMAIN res.event
    /\ res.restored > 0
    /\ res.skipped > 0
    /\ rsource # {}

\* Whether a record's key is in a stored manifest from which a batch-copy
\* job of the record's group was created.
InSubmittedManifest(r) ==
    \E j \in jobs :
        /\ j.group = RecordGroup(r)
        /\ j.manifest \in DOMAIN manifests
        /\ <<r.bucket, unquote_plus(r.key)>> \in Range(manifests[j.manifest].rows)

Acknowledged(i) ==
    { m \in Range(agg[i].batch) : m.body = "dict" /\ m.messageId \notin agg[i].response }

\* C28: once the invocations have returned, every object-created record that
\* passes the object filter of a tier with a window, and whose message is not
\* in batchItemFailures, has its key in a manifest submitted in a batch-copy
\* job of its (tier, source, window), also when it arrived in a later batch
\* of a window whose marker an earlier batch had written.
C28_NoAcknowledgedEventLost ==
    (\A i \in Invocations : Done(i)) =>
        \A i \in Invocations : \A m \in Acknowledged(i) :
            \A k \in 1..Len(m.Records) :
                LET r == m.Records[k]
                IN ( /\ r.kind = "ok"
                     /\ get_frequency_hours(get_bucket_criticality(r.bucket)) > 0
                     /\ within_allowed_prefixes(get_bucket_criticality(r.bucket),
                                                unquote_plus(r.key)) )
                   => InSubmittedManifest(r)

\* C29: an invocation of the Sweep Planner that returns SUCCESS writes
\* exactly one sweep checkpoint, the one of (source, effective mode); an
\* invocation that returns EMPTY or FAILED changes no sweep checkpoint and
\* leaves no object at its temporary manifest key; no other step writes a
\* checkpoint.
C29_CheckpointOnlyOnSuccess ==
    [][ IF Len(sruns') = Len(sruns) + 1
        THEN LET r == sruns'[Len(sruns')]
                 cp_key == <<r.event.source_bucket, r.effective>>
             IN IF r.status = "SUCCESS"
                THEN /\ r.cp_written
                     /\ cp_key \in DOMAIN checkpoints'
                     /\ checkpoints'[cp_key] = r.cp_time
                     /\ \A k \in DOMAIN checkpoints' \ {cp_key} :
                           k \in DOMAIN checkpoints /\ checkpoints'[k] = checkpoints[k]
                ELSE /\ checkpoints' = checkpoints
                     /\ r.temp_key \notin DOMAIN sobjects'
        ELSE checkpoints' = checkpoints ]_vars

\* C30: no invocation of the Sweep Planner returns SUCCESS when the store
\* rejected its checkpoint write and the stored checkpoint keeps the value it
\* had before.
C30_CheckpointFailureReported ==
    \A i \in 1..Len(sruns) : sruns[i].status = "SUCCESS" => sruns[i].cp_written

\* The modification time of a key of the source container.
ModifiedOf(key) ==
    LET n == CHOOSE n \in 1..Len(SourceObjects) : SourceObjects[n].Key = key
    IN SourceObjects[n].LastModified

\* Invocation i was asked for an incremental sweep, was escalated to full,
\* returned SUCCESS with its checkpoint stored, and invocation i + 1 is an
\* incremental sweep of the same source that got as far as the mode decision.
EscalatedThenIncremental(i) ==
    /\ i + 1 <= Len(sruns)
    /\ sconf.FORCE_FULL_ON_FIRST_RUN
    /\ sruns[i].status = "SUCCESS"
    /\ sruns[i].event.backup_type = "incremental"
    /\ sruns[i].effective = "full"
    /\ sruns[i].cp_written
    /\ "source_bucket" \in DOMAIN sruns[i + 1].event
    /\ sruns[i + 1].event.source_bucket = sruns[i].event.source_bucket
    /\ sruns[i + 1].event.backup_type = "incremental"
    /\ sruns[i + 1].effective # ""

\* C31: with FORCE_FULL_ON_FIRST_RUN, the incremental invocation that follows
\* an escalated, successful one finds the checkpoint, runs with effective mode
\* incremental and selects only objects modified after the checkpoint.
C31_EscalationAtMostOnce ==
    \A i \in 1..Len(sruns) :
        EscalatedThenIncremental(i) =>
            /\ sruns[i + 1].cp_exists
            /\ sruns[i + 1].effective = "incremental"
            /\ \A n \in 1..Len(sruns[i + 1].rows) :
                  ModifiedOf(sruns[i + 1].rows[n][2]) > sruns[i].cp_time

\* The rows of an enumeration that carry a date, and its keys.
EnumeratedRows(world) ==
    UNION { { world.shards[k][n] : n \in 1..Len(world.shards[k]) } : k \in DOMAIN world.shards }

EnumeratedKeys(world) == { row[2] : row \in { r \in EnumeratedRows(world) : Len(r) >= 2 } }

UnderAllowedPrefix(key) ==
    sconf.prefixes = <<>> \/ \E n \in 1..Len(sconf.prefixes) : StartsWith(key, sconf.prefixes[n])

\* Invocations i and i + 1 are incremental sweeps of one source that both
\* read an enumeration and ended without error, the first one successfully
\* and with its checkpoint stored.
ConsecutiveIncrementals(i) ==
    /\ i + 1 <= Len(sruns)
    /\ sruns[i].status = "SUCCESS"
    /\ sruns[i + 1].status \in {"SUCCESS", "EMPTY"}
    /\ sruns[i].effective = "incremental" /\ sruns[i + 1].effective = "incremental"
    /\ sruns[i].event.source_bucket = sruns[i + 1].event.source_bucket
    /\ sruns[i].manifest_key /\ sruns[i + 1].manifest_key
    /\ sruns[i].cp_written

\* C32: an object that the enumeration of sweep k did not list (it was
\* written after that enumeration was taken) and that the enumeration of
\* sweep k+1 lists under an allowed prefix is in the manifest of sweep k+1,
\* also when it was written before sweep k stored its checkpoint.
C32_NoObjectSkipped ==
    \A i \in 1..Len(sruns) :
        ConsecutiveIncrementals(i) =>
            \A row \in EnumeratedRows(sruns[i + 1].world) :
                ( /\ Len(row) >= 4
                  /\ fromisoformat(row[4]) # None
                  /\ row[2] \notin EnumeratedKeys(sruns[i].world)
                  /\ UnderAllowedPrefix(row[2]) )
                => \E n \in 1..Len(sruns[i + 1].rows) : sruns[i + 1].rows[n][2] = row[2]

RowKeys(rows) == { rows[n][2] : n \in 1..Len(rows) }

\* The objects a fallback sweep had to write: those of the source under an
\* allowed prefix that its checkpoint filter lets through.
FallbackSelection(r) ==
    { o \in Range(SourceObjects) :
        /\ UnderAllowedPrefix(o.Key)
        /\ (r.effective = "full" \/ r.last_cp = None \/ o.LastModified > r.last_cp) }

\* Invocation i is an incremental fallback sweep that a cap cut short and
\* that returned SUCCESS with its checkpoint stored; invocation i + 1 is an
\* incremental sweep of the same source over an enumeration, ended without
\* error.
TruncatedThenIncremental(i) ==
    /\ i + 1 <= Len(sruns)
    /\ sruns[i].status = "SUCCESS"
    /\ ~sruns[i].manifest_key
    /\ sruns[i].effective = "incremental"
    /\ sruns[i].cp_written
    /\ sconf.FALLBACK_MAX_OBJECTS # 0 \/ sconf.FALLBACK_TIME_LIMIT_SECONDS # 0
    /\ \E o \in FallbackSelection(sruns[i]) : o.Key \notin RowKeys(sruns[i].rows)
    /\ sruns[i + 1].status \in {"SUCCESS", "EMPTY"}
    /\ sruns[i + 1].manifest_key
    /\ sruns[i + 1].effective = "incremental"
    /\ sruns[i + 1].event.source_bucket = sruns[i].event.source_bucket

\* C33: every object that a truncated fallback sweep left out of its
\* manifest is in the manifest of the incremental sweep that follows and
\* whose enumeration lists it: the checkpoint was not advanced past it.
C33_TruncationKeepsCheckpoint ==
    \A i \in 1..Len(sruns) :
        TruncatedThenIncremental(i) =>
            \A o \in FallbackSelection(sruns[i]) :
                ( /\ o.Key \notin RowKeys(sruns[i].rows)
                  /\ o.Key \in EnumeratedKeys(sruns[i + 1].world) )
                => o.Key \in RowKeys(sruns[i + 1].rows)

\* The rows of the shards an invocation can read, in the order of the
\* descriptor's file list; an entry without key or without object has none.
RECURSIVE ReadableRows(_, _, _)
ReadableRows(world, source_bucket, n) ==
    IF n > Len(world.descriptor.files) THEN <<>>
    ELSE LET file_info == world.descriptor.files[n]
             here == IF "key" \in DOMAIN file_info
                        /\ CleanDataKey(file_info.key, source_bucket) \in DOMAIN world.shards
                     THEN world.shards[CleanDataKey(file_info.key, source_bucket)]
                     ELSE <<>>
         IN here \o ReadableRows(world, source_bucket, n + 1)

\* The rows the delta selection asks for, for a finished invocation r that
\* read its checkpoint: dated rows under an allowed prefix, newer than the
\* checkpoint when the effective mode is incremental and a checkpoint exists.
DeltaSelection(r) ==
    LET Selected(row) ==
            /\ fromisoformat(row[4]) # None
            /\ UnderAllowedPrefix(row[2])
            /\ (r.effective = "incremental" /\ r.cp_exists) => row[4] > r.last_cp
        rows == SelectSeq(ReadableRows(r.world, r.event.source_bucket, 1), Selected)
    IN [n \in 1..Len(rows) |-> <<rows[n][1], rows[n][2]>>]

ReadEnumeration(r) ==
    /\ r.status \in {"SUCCESS", "EMPTY"}
    /\ r.manifest_key
    /\ r.cp_exists <=> r.last_cp # None

\* C34: when an enumeration descriptor exists, the rows of the manifest are
\* exactly the rows of the readable shards under an allowed prefix and, for
\* an incremental effective mode with a checkpoint, with a LastModifiedDate
\* strictly greater than the checkpoint; a full effective mode ignores the
\* checkpoint and a missing shard is skipped.
C34_DeltaSelection ==
    \A i \in 1..Len(sruns) :
        ReadEnumeration(sruns[i]) => sruns[i].rows = DeltaSelection(sruns[i])

\* An incremental sweep with a checkpoint left out a row dated exactly at the
\* checkpoint and kept a newer one, its descriptor naming a missing shard.
C34_Witness ==
    \E i \in 1..Len(sruns) :
        /\ ReadEnumeration(sruns[i])
        /\ sruns[i].status = "SUCCESS"
        /\ sruns[i].effective = "incremental"
        /\ sruns[i].cp_exists
        /\ \E row \in EnumeratedRows(sruns[i].world) :
              row[4] = sruns[i].last_cp /\ row[2] \notin RowKeys(sruns[i].rows)
        /\ \E n \in 1..Len(sruns[i].world.descriptor.files) :
              LET file_info == sruns[i].world.descriptor.files[n]
              IN /\ "key" \in DOMAIN file_info
                 /\ CleanDataKey(file_info.key, sruns[i].event.source_bucket)
                        \notin DOMAIN sruns[i].world.shards

\* Whether an exclude-prefix matches a key: the key starts with it, or the
\* prefix (without trailing slashes) is the leading path segment or a
\* complete inner path segment of the key.
ExcludedByPrefix(p, object_key) ==
    \/ StartsWith(object_key, p)
    \/ StartsWith(object_key, RStripSlash(p) \o <<"/">>)
    \/ Contains(object_key, <<"/">> \o RStripSlash(p) \o <<"/">>)

\* C35: the object filter retains a key exactly when the key does not end
\* in '/', no exclude-prefix matches it at its start or as a complete path
\* segment, it ends with no exclude-suffix, and the tier has no allowed
\* prefixes or the key starts with one of them; prefix 't/' does not exclude
\* a key such as 'tx' that only shares its leading characters.
C35_ObjectFilter ==
    flt.pc = "returned" =>
        ( flt.retained <=>
            /\ ~EndsWith(flt.object_key, <<"/">>)
            /\ \A p \in flt.settings.ex_prefixes : ~ExcludedByPrefix(p, flt.object_key)
            /\ \A x \in flt.settings.ex_suffixes : ~EndsWith(flt.object_key, x)
            /\ \/ flt.settings.prefixes = {}
               \/ \E p \in flt.settings.prefixes : StartsWith(flt.object_key, p) )

\* A finished Launcher invocation whose event carried no window label and
\* that derived one; the label is the last field of the token's text.
DerivedLabel(r) == r.token # <<>> /\ Get(r.event, "window_label", <<>>) = <<>>

LabelOf(r) == r.token[2][5]

SameJobIdentity(r1, r2) == \A n \in 1..4 : r1.token[2][n] = r2.token[2][n]

\* C36: two invocations without window label for the same (source, mode,
\* generation, tier) that run within the same UTC hour derive a label with
\* minute 00, hence the same label, the same client token and the same
\* canonical manifest key.
C36_DerivedLabelPerHour ==
    \A i \in 1..Len(lruns), j \in 1..Len(lruns) :
        ( /\ DerivedLabel(lruns[i]) /\ DerivedLabel(lruns[j])
          /\ SameJobIdentity(lruns[i], lruns[j])
          /\ LabelOf(lruns[i])[2] = LabelOf(lruns[j])[2]
          /\ lruns[i].final_key[5] = lruns[j].final_key[5] )
        => /\ LabelOf(lruns[i])[3] = 0
           /\ LabelOf(lruns[i]) = LabelOf(lruns[j])
           /\ lruns[i].token = lruns[j].token
           /\ lruns[i].final_key = lruns[j].final_key

\* C37: after a successful reconcile of a container its enumeration
\* configuration delivers to the central container under the prefix
\* inventory-source, whatever the configuration was before the run, a
\* configuration with the target frequency and another destination included.
C37_InventoryDestination ==
    \A c \in DOMAIN ContainerTier :
        InventoryReconciled(c) =>
            /\ inventory[c].Bucket = CENTRAL_BUCKET_NAME
            /\ inventory[c].Prefix = <<"inventory-source">>

\* The entries of a configuration other than the trigger entry.
OtherEntries(current_config) ==
    [current_config EXCEPT !.QueueConfigurations = WithoutTrigger(@)]

\* C38: provisioning the trigger entry leaves every other entry of the
\* container as it was: once the run has provisioned a container, its queue
\* entries with another identifier (those for the event queue and
\* object-created events included), its topic entries and its function
\* entries are the ones it had before the run.
C38_OtherEntriesUnchanged ==
    \A c \in Range(DiscContainers) :
        (ContainerTier[c] \in CRITICALITIES_WITH_NOTIFICATIONS /\ Reported(c)) =>
            OtherEntries(notif[c]) = OtherEntries(disc.before[c])

HasEntry(queue_configs, entry) ==
    \E n \in 1..Len(queue_configs) : queue_configs[n] = entry

\* C39: no update of another writer is lost: an entry another writer added
\* to a container's notification configuration, also between the run's read
\* of the configuration and its write, is still in the configuration after
\* every step of the run, a successful write included.
C39_NoLostUpdate ==
    [][\A c \in Range(DiscContainers) :
          HasEntry(notif[c].QueueConfigurations, OtherWriterEntry) =>
              HasEntry(notif'[c].QueueConfigurations, OtherWriterEntry)]_vars

\* The objects of the central container under a data prefix.
ObjectsUnder(objects, data_prefix) == { k \in objects : IsUnder(k, data_prefix) }

\* C40: the manifest and the data prefix a restore resolves belong to one
\* backup run: in a store the Launcher produced, the manifest selected has
\* the label of the selected data prefix and its rows are the objects that
\* were written under that prefix.
C40_ManifestMatchesDataPrefix ==
    (rcentral \in LauncherWorlds /\ res.pc \notin {"idle", "raised"}) =>
        /\ Last(res.manifest_key)[2].name = Last(res.data_prefix)[2]
        /\ ObjectsUnder(DOMAIN rcentral, res.data_prefix)
              = DOMAIN BatchCopied(rcentral[res.manifest_key], res.data_prefix)

===========================================================================
